---------------------------- MODULE Spec2Model ----------------------------
(***************************************************************************)
(* A model of scripts/extract_bbmodel_1214.py: the conversion of one       *)
(* Blockbench .bbmodel document into one model JSON, its PNG textures and  *)
(* their .mcmeta sidecars under an assets root.                            *)
(*                                                                         *)
(* Strings are TLA+ strings.  JSON values of the loosely typed source      *)
(* document are records [t, n, d, s]: t is the JSON/Python type, the number *)
(* n/d (d is 1 but for a float) and s the text of a string.  A Python float *)
(* is the fraction [num, den] it holds, in lowest terms.                   *)
(***************************************************************************)
EXTENDS Integers, Sequences, FiniteSets, TLC

-----------------------------------------------------------------------------
(* Bounds of the model.                                                    *)

\* Textures of a document in a run against the file system.
MaxTextures == 5
\* Textures of a document whose texture names vary.
MaxNamedTextures == 3
\* Elements of a document whose elements vary.
MaxElements == 2
\* Faces an element declares when the declaration order varies.
MaxFaces == 2

-----------------------------------------------------------------------------
(* JSON values.                                                            *)

JNull == [t |-> "null", n |-> 0, d |-> 1, s |-> ""]
JInt(i) == [t |-> "int", n |-> i, d |-> 1, s |-> ""]
JBool(b) == [t |-> "bool", n |-> IF b THEN 1 ELSE 0, d |-> 1, s |-> ""]
\* The float num/den (den > 0): JFloat(33, 2) is 16.5.
JFloat(num, den) == [t |-> "float", n |-> num, d |-> den, s |-> ""]
JStr(str) == [t |-> "str", n |-> 0, d |-> 1, s |-> str]

\* isinstance(v, int): Python's bool is a subclass of int.
IsInstanceInt(v) == v.t \in {"int", "bool"}
\* isinstance(v, float) and v.is_integer()
IsIntegerFloat(v) == v.t = "float" /\ v.n % v.d = 0
\* int(v) of an integer-valued float
FloatToInt(v) == IF v.n >= 0 THEN v.n \div v.d ELSE -((-v.n) \div v.d)

Abs(i) == IF i < 0 THEN -i ELSE i

RECURSIVE GCD(_, _)
GCD(a, b) == IF b = 0 THEN a ELSE GCD(b, a % b)

\* A Python float that holds the fraction num/den (den > 0), in lowest terms.
Float(num, den) ==
    LET g == GCD(Abs(num), den)
    IN  [num |-> num \div g, den |-> den \div g]

-----------------------------------------------------------------------------
(* Strings.                                                                *)

CharAt(str, i) == SubSeq(str, i, i)
Digits == "0123456789"
LowerCase == "abcdefghijklmnopqrstuvwxyz"
UpperCase == "ABCDEFGHIJKLMNOPQRSTUVWXYZ"
\* The characters PACK_NAME_PATTERN keeps.
PackNameChars == LowerCase \o Digits \o "_."

IndexIn(c, alphabet) ==
    IF \E i \in 1..Len(alphabet) : CharAt(alphabet, i) = c
    THEN CHOOSE i \in 1..Len(alphabet) : CharAt(alphabet, i) = c
    ELSE 0

\* str.lower() of one character
LowerChar(c) ==
    IF IndexIn(c, UpperCase) > 0 THEN CharAt(LowerCase, IndexIn(c, UpperCase)) ELSE c

RECURSIVE to_pack_name(_)
\* PACK_NAME_PATTERN.sub("_", raw.lower())
to_pack_name(raw) ==
    IF Len(raw) = 0 THEN ""
    ELSE LET c == LowerChar(CharAt(raw, 1))
         IN  (IF IndexIn(c, PackNameChars) > 0 THEN c ELSE "_")
             \o to_pack_name(SubSeq(raw, 2, Len(raw)))

\* The set of the members of a sequence.
Range(seq) == {seq[i] : i \in 1..Len(seq)}

\* str.rfind(c): the last index (from 1) of character c in str, 0 when absent.
RFind(str, c) ==
    IF \E i \in 1..Len(str) : CharAt(str, i) = c
    THEN CHOOSE i \in 1..Len(str) :
            CharAt(str, i) = c /\ \A j \in (i+1)..Len(str) : CharAt(str, j) # c
    ELSE 0

\* Path(raw).name for a relative path that does not end in a separator or a dot
\* component: the text after the last "/".
PathName(raw) == SubSeq(raw, RFind(raw, "/") + 1, Len(raw))

\* Path(raw).stem: the name without its last suffix; a leading or trailing dot
\* is no suffix separator.
PathStem(raw) ==
    LET name == PathName(raw)
        i == RFind(name, ".")
    IN  IF 1 < i /\ i < Len(name) THEN SubSeq(name, 1, i - 1) ELSE name

RECURSIVE ParseDigits(_, _)
\* The value of a string of decimal digits, acc the value so far; -1 when a
\* character is no digit.
ParseDigits(str, acc) ==
    IF Len(str) = 0 THEN acc
    ELSE LET d == IndexIn(CharAt(str, 1), Digits)
         IN  IF d = 0 THEN -1 ELSE ParseDigits(SubSeq(str, 2, Len(str)), acc * 10 + (d - 1))

\* int(str) of a string: [ok, value]; a sign and decimal digits.
ParseInt(str) ==
    LET neg == Len(str) > 0 /\ CharAt(str, 1) = "-"
        body == IF neg \/ (Len(str) > 0 /\ CharAt(str, 1) = "+")
                THEN SubSeq(str, 2, Len(str)) ELSE str
        v == IF Len(body) = 0 THEN -1 ELSE ParseDigits(body, 0)
    IN  IF v < 0 THEN [ok |-> FALSE, value |-> 0]
        ELSE [ok |-> TRUE, value |-> IF neg THEN -v ELSE v]

\* Python's str() of the value an int-typed expression holds: a bool prints
\* as True/False, an int in decimal.
PyStr(v) ==
    IF v.t = "bool" THEN (IF v.n = 1 THEN "True" ELSE "False") ELSE ToString(v.n)


-----------------------------------------------------------------------------
(* Errors: fail(message) prints the message and exits with status 1.  An    *)
(* error is the message, as its lines, under the name the design gives the *)
(* failure.                                                                *)

NoError == [kind |-> "none", lines |-> << >>]
Fail(kind, message) == [kind |-> kind, lines |-> <<message>>]

-----------------------------------------------------------------------------
(* The state of a run of main and of the files it works on.                *)

VARIABLES
    fs,             \* the files that exist under the assets root (their paths)
    dirs,           \* the directories that exist under the assets root
    args,           \* the flags of the run: force, dry_run, prefix_textures
    bbmodel,        \* the source document of the run
    pc,             \* where main is
    texture_plans,  \* main's texture_plans
    model_json,     \* main's model_json
    error,          \* the error the run failed with
    cursor,         \* the loops of lines 501-507: the textures done so far
    writes,         \* the writes of this run, in order: [path, kind, index]
    fs0             \* the files that existed when the run started

vars == <<fs, dirs, args, bbmodel, pc, texture_plans, model_json, error, cursor,
          writes, fs0>>

-----------------------------------------------------------------------------
(* The command line (parse_args and the names main derives from it).       *)

\* --assets-root, resolved
assets_root == "/pack/assets"
\* the bbmodel's path, resolved, and its directory
bbmodel_path == "/work/Gem.bbmodel"
bbmodel_dir == "/work"
\* to_pack_name(args.namespace), with the default namespace
namespace == to_pack_name("bloodstone")
\* to_pack_name(args.model_name or bbmodel_path.stem)
model_name == to_pack_name(PathStem(bbmodel_path))
\* to_pack_name(args.asset or bbmodel_path.stem)
asset == to_pack_name(PathStem(bbmodel_path))
\* to_pack_name(args.variant), with the default variant
variant == to_pack_name("default")

\* The files beside the bbmodel that an external texture source may name.
ExternalFiles == {"/work/ext.png"}

\* Path.is_file(): a file beside the bbmodel, or one under the assets root.
IsFile(p) == p \in ExternalFiles \/ p \in fs

-----------------------------------------------------------------------------
(* Texture Resolver.                                                       *)

\* Lines 130-134: the parsed integer when it is positive.
PositiveOr(parsed, default) == IF parsed.ok /\ parsed.value > 0 THEN parsed.value ELSE default

\* read_positive_int(value, default)
read_positive_int(value, default) ==
    IF value.t = "bool" THEN default
    ELSE IF value.t = "int" THEN (IF value.n > 0 THEN value.n ELSE default)
    ELSE IF IsIntegerFloat(value)
         THEN (IF FloatToInt(value) > 0 THEN FloatToInt(value) ELSE default)
    ELSE IF value.t = "str" THEN PositiveOr(ParseInt(value.s), default)
    ELSE default

\* str.find(c): the first index (from 1) of character c, 0 when absent.
Find(str, c) ==
    IF \E i \in 1..Len(str) : CharAt(str, i) = c
    THEN CHOOSE i \in 1..Len(str) :
            CharAt(str, i) = c /\ \A j \in 1..(i-1) : CharAt(str, j) # c
    ELSE 0

StartsWith(str, prefix) ==
    Len(str) >= Len(prefix) /\ SubSeq(str, 1, Len(prefix)) = prefix

\* An external texture path, made absolute against the bbmodel's directory.
ExternalPath(p) == IF StartsWith(p, "/") THEN p ELSE bbmodel_dir \o "/" \o p

\* base64.b64decode(payload, validate=False) raises on incorrect padding: the
\* payloads of the model are whole groups of four characters or are not.
Base64Valid(payload) == Len(payload) % 4 = 0

\* decode_texture_source(texture, bbmodel_path, idx): [ok, bytes, error].  The
\* bytes are named by where they come from.
decode_texture_source(texture, idx) ==
    IF texture.source # "" /\ StartsWith(texture.source, "data:")
    THEN LET comma == Find(texture.source, ",")
             payload == SubSeq(texture.source, comma + 1, Len(texture.source))
         IN  IF comma = 0
             THEN [ok |-> FALSE, bytes |-> "",
                   error |-> Fail("InvalidPayload",
                       "Texture " \o ToString(idx) \o " has malformed data URL.")]
             ELSE IF ~Base64Valid(payload)
             THEN [ok |-> FALSE, bytes |-> "",
                   error |-> Fail("InvalidPayload",
                       "Texture " \o ToString(idx) \o " has invalid base64 payload.")]
             ELSE [ok |-> TRUE, bytes |-> "b64:" \o payload, error |-> NoError]
    ELSE IF texture.source # ""
    THEN IF ~IsFile(ExternalPath(texture.source))
         THEN [ok |-> FALSE, bytes |-> "",
               error |-> Fail("MissingExternalAsset",
                   "Texture " \o ToString(idx) \o " external source missing: "
                   \o ExternalPath(texture.source))]
         ELSE [ok |-> TRUE, bytes |-> "file:" \o ExternalPath(texture.source),
               error |-> NoError]
    ELSE IF texture.path # ""
    THEN IF ~IsFile(ExternalPath(texture.path))
         THEN [ok |-> FALSE, bytes |-> "",
               error |-> Fail("MissingExternalAsset",
                   "Texture " \o ToString(idx) \o " external path missing: "
                   \o ExternalPath(texture.path))]
         ELSE [ok |-> TRUE, bytes |-> "file:" \o ExternalPath(texture.path),
               error |-> NoError]
    ELSE [ok |-> FALSE, bytes |-> "",
          error |-> Fail("MissingExternalAsset",
              "Texture " \o ToString(idx)
              \o " has neither embedded source nor readable external path.")]

\* The stem of texture idx before de-duplication (lines 191-198).
CandidateStem(texture, idx, prefix_textures) ==
    LET default == "texture_" \o ToString(idx)
        raw_name == IF texture.name # "" THEN texture.name ELSE default
        stem0 == PathStem(raw_name)
        stem1 == to_pack_name(IF stem0 # "" THEN stem0 ELSE default)
        stem2 == IF prefix_textures THEN to_pack_name(model_name \o "_" \o stem1)
                 ELSE stem1
    IN  IF stem2 = "" THEN default ELSE stem2

RECURSIVE UniqueStemFrom(_, _, _, _)
\* The while loop of lines 201-203: unique_stem is the candidate now tried.
UniqueStemFrom(stem, unique_stem, suffix, used_names) ==
    IF unique_stem \in used_names
    THEN UniqueStemFrom(stem, stem \o "_" \o ToString(suffix), suffix + 1, used_names)
    ELSE unique_stem

\* Lines 199-203 with an `if` for the `while`: the suffix is tried once.
UniqueStemOnce(stem, used_names) ==
    IF stem \in used_names THEN stem \o "_2" ELSE stem

\* Lines 199-203.
UniqueStem(stem, used_names) == UniqueStemFrom(stem, stem, 2, used_names)

\* Lines 207-219 with >= for >.
IsAnimatedNonStrict(texture) ==
    LET width == read_positive_int(texture.width, 0)
        height == read_positive_int(texture.height, 0)
        uv_width == read_positive_int(texture.uv_width, 0)
        uv_height == read_positive_int(texture.uv_height, 0)
    IN  IF uv_width > 0 /\ uv_height > 0
        THEN height * uv_width >= width * uv_height
        ELSE width > 0 /\ height >= width

\* Lines 207-219: is_animated of a texture.  The quotients are compared as
\* exact fractions.
IsAnimated(texture) ==
    LET width == read_positive_int(texture.width, 0)
        height == read_positive_int(texture.height, 0)
        uv_width == read_positive_int(texture.uv_width, 0)
        uv_height == read_positive_int(texture.uv_height, 0)
    IN  IF uv_width > 0 /\ uv_height > 0
        THEN \* height / uv_height > width / uv_width
             height * uv_width > width * uv_height
        ELSE width > 0 /\ height > width

NoMcmeta == [present |-> FALSE, interpolate |-> FALSE, frametime |-> 0]

\* Lines 221-228: mcmeta_json
McmetaJson(texture) ==
    IF IsAnimated(texture)
    THEN [present |-> TRUE, interpolate |-> texture.frame_interpolate,
          frametime |-> read_positive_int(texture.frame_time, 1)]
    ELSE NoMcmeta

\* Line 230.
RelNamespacePath(unique_stem) ==
    namespace \o ":item/" \o asset \o "/" \o variant \o "/" \o unique_stem

RECURSIVE TexturePlansFrom(_, _, _, _, _)
\* The loop of build_texture_plans from texture idx (0-based) on, with the plans
\* and the used names so far: [ok, plans, error].
TexturePlansFrom(raw_textures, idx, plans, used_names, prefix_textures) ==
    IF idx >= Len(raw_textures) THEN [ok |-> TRUE, plans |-> plans, error |-> NoError]
    ELSE LET texture == raw_textures[idx + 1]
         IN  IF ~texture.is_object
             THEN [ok |-> FALSE, plans |-> << >>,
                   error |-> Fail("MalformedInput",
                       "Texture entry " \o ToString(idx) \o " is not an object.")]
             ELSE LET unique_stem ==
                          UniqueStem(CandidateStem(texture, idx, prefix_textures), used_names)
                      data == decode_texture_source(texture, idx)
                  IN  IF ~data.ok
                      THEN [ok |-> FALSE, plans |-> << >>, error |-> data.error]
                      ELSE TexturePlansFrom(raw_textures, idx + 1,
                              Append(plans,
                                  [index |-> idx,
                                   file_stem |-> unique_stem,
                                   rel_namespace_path |-> RelNamespacePath(unique_stem),
                                   png_bytes |-> data.bytes,
                                   mcmeta_json |-> McmetaJson(texture)]),
                              used_names \cup {unique_stem}, prefix_textures)

\* build_texture_plans with `continue` for the failure of a texture that does
\* not decode.
build_texture_plans_skipping(doc, prefix_textures) ==
    TexturePlansFrom(SelectSeq(doc.textures,
                               LAMBDA t : t.is_object /\ decode_texture_source(t, 0).ok),
                     0, << >>, {}, prefix_textures)

\* build_texture_plans(bbmodel, ...): [ok, plans, error]
build_texture_plans(doc, prefix_textures) ==
    IF ~doc.textures_is_list
    THEN [ok |-> FALSE, plans |-> << >>,
          error |-> Fail("MalformedInput",
              "bbmodel 'textures' field is missing or not an array.")]
    ELSE TexturePlansFrom(doc.textures, 0, << >>, {}, prefix_textures)

-----------------------------------------------------------------------------
(* Geometry Converter.  An operator named ...Of takes the results of the    *)
(* calls its lines make as arguments, in the order the code makes them.    *)

VALID_FACES == <<"north", "east", "south", "west", "up", "down">>

\* 1e-7 is 1/EpsilonInverse (line 298).
EpsilonInverse == 10000000

FloatOfParsed(parsed) == [ok |-> parsed.ok, value |-> Float(parsed.value, 1)]

\* float(v): [ok, value].  TypeError and ValueError are the failures the
\* callers catch; a string converts when it is a decimal integer.
ToFloat(v) ==
    IF v.t \in {"int", "bool"} THEN [ok |-> TRUE, value |-> Float(v.n, 1)]
    ELSE IF v.t = "float" THEN [ok |-> TRUE, value |-> Float(v.n, v.d)]
    ELSE IF v.t = "str" THEN FloatOfParsed(ParseInt(v.s))
    ELSE [ok |-> FALSE, value |-> Float(0, 1)]

\* ensure_list3 and ensure_list4 on the items converted by float().
EnsureListOf(value, size, label, elem_name, floats) ==
    IF ~value.is_list \/ Len(value.items) # size
    THEN [ok |-> FALSE, vec |-> << >>,
          error |-> Fail("MalformedInput",
              "Element '" \o elem_name \o "' has invalid " \o label \o "; expected "
              \o ToString(size) \o "-number array.")]
    ELSE IF \E i \in 1..size : ~floats[i].ok
    THEN [ok |-> FALSE, vec |-> << >>,
          error |-> Fail("InvalidNumericField",
              "Element '" \o elem_name \o "' has non-numeric " \o label \o ".")]
    ELSE [ok |-> TRUE, vec |-> [i \in 1..size |-> floats[i].value], error |-> NoError]

\* ensure_list3 and ensure_list4: [ok, vec, error] for a list of `size` numbers.
ensure_list(value, size, label, elem_name) ==
    EnsureListOf(value, size, label, elem_name,
                 [i \in 1..Len(value.items) |-> ToFloat(value.items[i])])

ensure_list3(value, label, elem_name) == ensure_list(value, 3, label, elem_name)
ensure_list4(value, label, elem_name) == ensure_list(value, 4, label, elem_name)

\* x / scale
FloatDiv(x, scale) == Float(x.num * scale.den, x.den * scale.num)

\* resolution / 16.0, and 1.0 when that is not positive (lines 246-251)
Scale(model_resolution) ==
    IF model_resolution <= 0 THEN Float(1, 1) ELSE Float(model_resolution, 16)

\* convert_face_uv with scale_width for all four coordinates.
convert_face_uv_by_width(raw_uv, model_resolution_width, model_resolution_height) ==
    [i \in 1..4 |-> FloatDiv(raw_uv[i], Scale(model_resolution_width))]

\* convert_face_uv(raw_uv, model_resolution_width, model_resolution_height)
convert_face_uv(raw_uv, model_resolution_width, model_resolution_height) ==
    [i \in 1..4 |->
        FloatDiv(raw_uv[i], Scale(IF i \in {1, 3} THEN model_resolution_width
                                  ELSE model_resolution_height))]

\* Lines 265-271 with int(raw) done.
TextureIndexOfString(raw, elem_name, face_name, parsed) ==
    IF parsed.ok THEN [ok |-> TRUE, index |-> JInt(parsed.value), error |-> NoError]
    ELSE [ok |-> FALSE, index |-> JNull,
          error |-> Fail("InvalidNumericField",
              "Element '" \o elem_name \o "' face '" \o face_name
              \o "' uses non-numeric texture ref '" \o raw.s \o "'.")]

\* resolve_texture_index(raw, elem_name, face_name): [ok, index, error].  The
\* index is the Python value returned: an int, which a bool also is.
resolve_texture_index(raw, elem_name, face_name) ==
    IF IsInstanceInt(raw) THEN [ok |-> TRUE, index |-> raw, error |-> NoError]
    ELSE IF IsIntegerFloat(raw)
    THEN [ok |-> TRUE, index |-> JInt(FloatToInt(raw)), error |-> NoError]
    ELSE IF raw.t = "str"
    THEN TextureIndexOfString(raw, elem_name, face_name, ParseInt(raw.s))
    ELSE [ok |-> FALSE, index |-> JNull,
          error |-> Fail("MalformedInput",
              "Element '" \o elem_name \o "' face '" \o face_name
              \o "' has invalid texture ref.")]

NoRotation ==
    [present |-> FALSE, axis |-> "", angle |-> Float(0, 1), origin |-> << >>,
     rescale |-> FALSE]

\* abs(value) >= 1e-7
IsNonZeroInclusive(value) == Abs(value.num) * EpsilonInverse >= value.den

\* abs(value) > 1e-7
IsNonZero(value) == Abs(value.num) * EpsilonInverse > value.den

\* Line 298: the (axis, value) pairs of the non-zero components, in axis order.
NonZeroAxes(vec) ==
    LET axes == <<"x", "y", "z">>
        Pair(i) == IF IsNonZero(vec[i]) THEN <<[axis |-> axes[i], value |-> vec[i]]>>
                   ELSE << >>
    IN  Pair(1) \o Pair(2) \o Pair(3)

\* The rendering f"{vec}" of a float list is left as the placeholder <vec>.
MultiAxisMessage(elem_name) ==
    "Element '" \o elem_name
    \o "' has multi-axis rotation <vec>; cannot represent in one vanilla cube rotation."

\* Lines 285-292 with the origin checked.
ObjectRotationOf(raw_rotation, origin) ==
    IF ~origin.ok THEN [ok |-> FALSE, rotation |-> NoRotation, error |-> origin.error]
    ELSE [ok |-> TRUE,
          rotation |-> [present |-> TRUE, axis |-> raw_rotation.axis,
                        angle |-> Float(raw_rotation.angle.n, raw_rotation.angle.d),
                        origin |-> origin.vec,
                        rescale |-> raw_rotation.rescale],
          error |-> NoError]

\* Lines 305-310 with the one non-zero axis and the element's origin checked.
SingleAxisRotationOf(non_zero, origin) ==
    IF ~origin.ok THEN [ok |-> FALSE, rotation |-> NoRotation, error |-> origin.error]
    ELSE [ok |-> TRUE,
          rotation |-> [present |-> TRUE, axis |-> non_zero.axis, angle |-> non_zero.value,
                        origin |-> origin.vec, rescale |-> FALSE],
          error |-> NoError]

\* Lines 298-310 with the rotation vector checked.
ListRotationOf(vec, elem, elem_name) ==
    IF ~vec.ok THEN [ok |-> FALSE, rotation |-> NoRotation, error |-> vec.error]
    ELSE IF Len(NonZeroAxes(vec.vec)) = 0
    THEN [ok |-> TRUE, rotation |-> NoRotation, error |-> NoError]
    ELSE IF Len(NonZeroAxes(vec.vec)) > 1
    THEN [ok |-> FALSE, rotation |-> NoRotation,
          error |-> Fail("UnsupportedRotation", MultiAxisMessage(elem_name))]
    ELSE SingleAxisRotationOf(NonZeroAxes(vec.vec)[1],
                              ensure_list3(elem.origin, "origin", elem_name))

\* convert_rotation(raw_rotation, elem, elem_name): [ok, rotation, error]
convert_rotation(raw_rotation, elem, elem_name) ==
    IF raw_rotation.form = "absent"
    THEN [ok |-> TRUE, rotation |-> NoRotation, error |-> NoError]
    ELSE IF raw_rotation.form = "object"
    THEN IF raw_rotation.axis \in {"x", "y", "z"}
            /\ raw_rotation.angle.t \in {"int", "bool", "float"}
         THEN ObjectRotationOf(raw_rotation,
                  ensure_list3(raw_rotation.origin, "rotation.origin", elem_name))
         ELSE [ok |-> FALSE, rotation |-> NoRotation,
               error |-> Fail("UnsupportedRotation",
                   "Element '" \o elem_name
                   \o "' rotation object is missing axis/angle/origin.")]
    ELSE IF raw_rotation.form = "list"
    THEN ListRotationOf(ensure_list3([is_list |-> TRUE, items |-> raw_rotation.items],
                                     "rotation", elem_name),
                        elem, elem_name)
    ELSE [ok |-> FALSE, rotation |-> NoRotation,
          error |-> Fail("UnsupportedRotation",
              "Element '" \o elem_name \o "' has unsupported rotation format.")]

\* A face the source does not declare: raw_faces.get(face_name) is None.
NoFace ==
    [is_object |-> FALSE, texture |-> JNull, uv |-> [is_list |-> FALSE, items |-> << >>],
     rotation |-> JNull, tint |-> JNull, tintindex |-> JNull]

\* raw_faces.get(face_name) of the faces object, its members in declared order.
GetFace(raw_faces, face_name) ==
    IF \E i \in 1..Len(raw_faces) : raw_faces[i].name = face_name
    THEN raw_faces[CHOOSE i \in 1..Len(raw_faces) : raw_faces[i].name = face_name].face
    ELSE NoFace

NoFaceRotation == [present |-> FALSE, value |-> Float(0, 1)]

\* Lines 383-385: the face rotation carried over, when there is one.
FaceRotation(face_rotation) ==
    IF face_rotation.t \in {"int", "bool", "float"} /\ face_rotation.n # 0
    THEN [present |-> TRUE, value |-> Float(face_rotation.n, face_rotation.d)]
    ELSE NoFaceRotation

\* Lines 387-392 with the two `if`s in the other order: tint is applied last.
TintIndexTintLast(raw_face) ==
    IF IsInstanceInt(raw_face.tint) /\ raw_face.tint.n >= 0
    THEN raw_face.tint
    ELSE IF IsInstanceInt(raw_face.tintindex) /\ raw_face.tintindex.n >= 0
    THEN raw_face.tintindex
    ELSE JNull

\* Lines 387-392: the tintindex of the face, JNull when there is none.
TintIndex(raw_face) ==
    IF IsInstanceInt(raw_face.tintindex) /\ raw_face.tintindex.n >= 0
    THEN raw_face.tintindex
    ELSE IF IsInstanceInt(raw_face.tint) /\ raw_face.tint.n >= 0
    THEN raw_face.tint
    ELSE JNull

NoTargetFace ==
    [uv |-> << >>, texture |-> "", rotation |-> NoFaceRotation, tintindex |-> JNull]

\* Lines 370-394 with the texture reference resolved and the uv checked.
ConvertFaceOf(raw_face, elem_name, face_name, texture_indices, res_w, res_h, tex, uv) ==
    IF ~tex.ok THEN [ok |-> FALSE, face |-> NoTargetFace, error |-> tex.error]
    ELSE IF tex.index.n \notin texture_indices
    THEN [ok |-> FALSE, face |-> NoTargetFace,
          error |-> Fail("UnknownTextureRef",
              "Element '" \o elem_name \o "' face '" \o face_name
              \o "' references missing texture index " \o PyStr(tex.index) \o ".")]
    ELSE IF ~uv.ok THEN [ok |-> FALSE, face |-> NoTargetFace, error |-> uv.error]
    ELSE [ok |-> TRUE,
          face |-> [uv |-> convert_face_uv(uv.vec, res_w, res_h),
                    texture |-> "#" \o PyStr(tex.index),
                    rotation |-> FaceRotation(raw_face.rotation),
                    tintindex |-> TintIndex(raw_face)],
          error |-> NoError]

\* Lines 369-394 for one declared face: [ok, face, error].  texture_indices are
\* the keys of texture_lookup.
ConvertFace(raw_face, elem_name, face_name, texture_indices, res_width, res_height) ==
    ConvertFaceOf(raw_face, elem_name, face_name, texture_indices, res_width, res_height,
                  resolve_texture_index(raw_face.texture, elem_name, face_name),
                  ensure_list4(raw_face.uv, "face uv", elem_name))

\* The faces an element declares as objects under the names of VALID_FACES, in
\* the order of the loop of line 364: the face names.
LoopFaceNames(raw_faces) ==
    SelectSeq(VALID_FACES, LAMBDA face_name : GetFace(raw_faces, face_name).is_object)

\* The loop of lines 364-394 over the converted faces: [ok, faces, error], the
\* faces a dict, as its members in insertion order.  The loop fails at the
\* first face that fails.
FacesOf(names, converted) ==
    IF \E k \in 1..Len(names) : ~converted[k].ok
    THEN [ok |-> FALSE, faces |-> << >>,
          error |-> converted[CHOOSE k \in 1..Len(names) :
                                 ~converted[k].ok
                                 /\ \A j \in 1..(k-1) : converted[j].ok].error]
    ELSE [ok |-> TRUE,
          faces |-> [k \in 1..Len(names) |-> [name |-> names[k], face |-> converted[k].face]],
          error |-> NoError]

\* Lines 363-394.
ConvertFacesIn(raw_faces, names, elem_name, texture_indices, res_width, res_height) ==
    FacesOf(names,
            [k \in 1..Len(names) |->
                ConvertFace(GetFace(raw_faces, names[k]), elem_name, names[k],
                            texture_indices, res_width, res_height)])

ConvertFaces(raw_faces, elem_name, texture_indices, res_width, res_height) ==
    ConvertFacesIn(raw_faces, LoopFaceNames(raw_faces), elem_name, texture_indices,
                   res_width, res_height)

NoElement ==
    [from |-> << >>, to |-> << >>, rotation |-> NoRotation,
     shade |-> TRUE, light_emission |-> JNull, faces |-> << >>]

ElementFailed(e) == [ok |-> FALSE, dropped |-> FALSE, element |-> NoElement, error |-> e]

\* Lines 343-400 with from, to, the rotation and the faces converted.
ConvertElementOf(elem, elem_name, from, to, rotation, faces) ==
    IF ~from.ok THEN ElementFailed(from.error)
    ELSE IF ~to.ok THEN ElementFailed(to.error)
    ELSE IF ~rotation.ok THEN ElementFailed(rotation.error)
    ELSE IF ~elem.faces_is_object
    THEN ElementFailed(Fail("MalformedInput",
             "Element '" \o elem_name \o "' is missing valid faces object."))
    ELSE IF ~faces.ok THEN ElementFailed(faces.error)
    ELSE IF Len(faces.faces) = 0
    THEN [ok |-> TRUE, dropped |-> TRUE, element |-> NoElement, error |-> NoError]
    ELSE [ok |-> TRUE, dropped |-> FALSE,
          element |-> [from |-> from.vec, to |-> to.vec,
                       rotation |-> rotation.rotation,
                       shade |-> ~(elem.shade = JBool(FALSE)),
                       light_emission |->
                           IF IsInstanceInt(elem.light_emission)
                              /\ elem.light_emission.n > 0
                           THEN elem.light_emission ELSE JNull,
                       faces |-> faces.faces],
          error |-> NoError]

\* Line 342.
ElemName(elem, idx) == IF elem.name # "" THEN elem.name ELSE "element_" \o ToString(idx)

\* Lines 342-400 for one visible element: [ok, dropped, element, error].
ConvertElementNamed(elem, elem_name, texture_indices, res_width, res_height) ==
    ConvertElementOf(elem, elem_name,
        ensure_list3(elem.from, "from", elem_name),
        ensure_list3(elem.to, "to", elem_name),
        convert_rotation(elem.rotation, elem, elem_name),
        ConvertFaces(elem.faces, elem_name, texture_indices, res_width, res_height))

ConvertElement(elem, idx, texture_indices, res_width, res_height) ==
    ConvertElementNamed(elem, ElemName(elem, idx), texture_indices, res_width, res_height)

\* Lines 335-340 and 396-400 without the `continue` of lines 339-340.
ElementStepIgnoringVisibility(elem, idx, c) ==
    IF ~elem.is_object
    THEN [ok |-> FALSE, skip |-> FALSE,
          error |-> Fail("MalformedInput",
              "Element entry " \o ToString(idx) \o " is not an object."),
          element |-> NoElement]
    ELSE [ok |-> c.ok, skip |-> c.dropped, error |-> c.error, element |-> c.element]

\* Lines 335-340 and 396-400 without the `continue` of lines 396-397.
ElementStepKeepingDropped(elem, idx, c) ==
    IF ~elem.is_object
    THEN [ok |-> FALSE, skip |-> FALSE,
          error |-> Fail("MalformedInput",
              "Element entry " \o ToString(idx) \o " is not an object."),
          element |-> NoElement]
    ELSE IF elem.visibility = JBool(FALSE)
    THEN [ok |-> TRUE, skip |-> TRUE, error |-> NoError, element |-> NoElement]
    ELSE [ok |-> c.ok, skip |-> FALSE, error |-> c.error, element |-> c.element]

\* Lines 335-340 and 396-400 for element idx with its conversion c: what the
\* loop does with it.
ElementStep(elem, idx, c) ==
    IF ~elem.is_object
    THEN [ok |-> FALSE, skip |-> FALSE,
          error |-> Fail("MalformedInput",
              "Element entry " \o ToString(idx) \o " is not an object."),
          element |-> NoElement]
    ELSE IF elem.visibility = JBool(FALSE)
    THEN [ok |-> TRUE, skip |-> TRUE, error |-> NoError, element |-> NoElement]
    ELSE [ok |-> c.ok, skip |-> c.dropped, error |-> c.error, element |-> c.element]

RECURSIVE KeptElementsReversed(_, _)
\* Line 400 with insert(0, ...) for append.
KeptElementsReversed(steps, k) ==
    IF k > Len(steps) THEN << >>
    ELSE KeptElementsReversed(steps, k + 1)
         \o (IF steps[k].skip THEN << >> ELSE <<steps[k].element>>)

RECURSIVE KeptElements(_, _)
\* The elements of the steps from k on that were appended (line 400).
KeptElements(steps, k) ==
    IF k > Len(steps) THEN << >>
    ELSE (IF steps[k].skip THEN << >> ELSE <<steps[k].element>>)
         \o KeptElements(steps, k + 1)

\* The loop of lines 334-400 over the steps of the elements: [ok, elements,
\* error].  The loop fails at the first element that fails.
ElementsOf(steps) ==
    IF \E k \in 1..Len(steps) : ~steps[k].ok
    THEN [ok |-> FALSE, elements |-> << >>,
          error |-> steps[CHOOSE k \in 1..Len(steps) :
                             ~steps[k].ok /\ \A j \in 1..(k-1) : steps[j].ok].error]
    ELSE [ok |-> TRUE, elements |-> KeptElements(steps, 1), error |-> NoError]

\* Lines 333-400.
ConvertElements(elements, texture_indices, res_width, res_height) ==
    ElementsOf([k \in 1..Len(elements) |->
                   ElementStep(elements[k], k - 1,
                       ConvertElement(elements[k], k - 1, texture_indices,
                                      res_width, res_height))])

-----------------------------------------------------------------------------
(* Model Assembler.                                                        *)

\* Lines 323-327: the texture table, a dict from str(index) and "particle" to
\* the resource reference.
TextureObject(plans) ==
    LET keys == {ToString(plans[i].index) : i \in 1..Len(plans)}
                \cup (IF Len(plans) > 0 THEN {"particle"} ELSE {})
    IN  [k \in keys |->
            IF k = "particle" THEN plans[1].rel_namespace_path
            ELSE plans[CHOOSE i \in 1..Len(plans) :
                          ToString(plans[i].index) = k].rel_namespace_path]

NoModel == [present |-> FALSE, textures |-> << >>, elements |-> << >>,
            gui_light |-> "", display |-> ""]

\* Lines 329-414 without the check of lines 402-403.
ModelJsonOfAllowEmpty(doc, plans, converted) ==
    IF ~doc.elements_is_list
    THEN [ok |-> FALSE, json |-> NoModel,
          error |-> Fail("MalformedInput",
              "bbmodel 'elements' field is missing or not an array.")]
    ELSE IF ~converted.ok THEN [ok |-> FALSE, json |-> NoModel, error |-> converted.error]
    ELSE [ok |-> TRUE,
          json |-> [present |-> TRUE,
                    textures |-> TextureObject(plans),
                    elements |-> converted.elements,
                    gui_light |-> IF doc.front_gui_light THEN "front" ELSE "",
                    display |-> doc.display],
          error |-> NoError]

\* Lines 329-414 with the elements converted.
ModelJsonOf(doc, plans, converted) ==
    IF ~doc.elements_is_list
    THEN [ok |-> FALSE, json |-> NoModel,
          error |-> Fail("MalformedInput",
              "bbmodel 'elements' field is missing or not an array.")]
    ELSE IF ~converted.ok THEN [ok |-> FALSE, json |-> NoModel, error |-> converted.error]
    ELSE IF Len(converted.elements) = 0
    THEN [ok |-> FALSE, json |-> NoModel,
          error |-> Fail("EmptyResult",
              "No visible textured elements were generated from the bbmodel.")]
    ELSE [ok |-> TRUE,
          json |-> [present |-> TRUE,
                    textures |-> TextureObject(plans),
                    elements |-> converted.elements,
                    gui_light |-> IF doc.front_gui_light THEN "front" ELSE "",
                    display |-> doc.display],
          error |-> NoError]

\* The keys of texture_lookup (line 322).
TextureIndices(plans) == {plans[i].index : i \in 1..Len(plans)}

\* build_model_json(bbmodel, texture_plans, width, height): [ok, json, error]
build_model_json(doc, plans, res_width, res_height) ==
    ModelJsonOf(doc, plans,
                ConvertElements(doc.elements, TextureIndices(plans), res_width, res_height))

-----------------------------------------------------------------------------
(* Output Planner.                                                         *)

\* Lines 468-470.
model_dir == assets_root \o "/" \o namespace \o "/models/item/" \o asset \o "/" \o variant
texture_dir == assets_root \o "/" \o namespace \o "/textures/item/" \o asset \o "/" \o variant
model_path == model_dir \o "/" \o model_name \o ".json"

\* Line 471, for one plan.
TexturePath(t) == texture_dir \o "/" \o t.file_stem \o ".png"
\* Lines 473 and 506, for one plan.
McmetaPath(t) == texture_dir \o "/" \o t.file_stem \o ".png.mcmeta"

\* Line 471.
texture_paths(plans) == [i \in 1..Len(plans) |-> TexturePath(plans[i])]

\* Lines 472-476 without the `if` of line 475.
mcmeta_paths_all(plans) == [i \in 1..Len(plans) |-> McmetaPath(plans[i])]

RECURSIVE mcmeta_paths(_)
\* Lines 472-476.
mcmeta_paths(plans) ==
    IF Len(plans) = 0 THEN << >>
    ELSE (IF plans[1].mcmeta_json.present THEN <<McmetaPath(plans[1])>> ELSE << >>)
         \o mcmeta_paths(Tail(plans))

\* The argument of ensure_writable at line 478.
PlannedPaths(plans) == <<model_path>> \o texture_paths(plans) \o mcmeta_paths(plans)

\* collisions[:10] (line 422)
PreviewLimit == 10

\* Path.exists()
Exists(p) == p \in fs \/ p \in dirs

\* Line 420.
Collisions(paths) == SelectSeq(paths, Exists)

\* A variant of ensure_writable that stops at the first existing path.
ensure_writable_first_only(paths, force) ==
    IF force \/ Len(Collisions(paths)) = 0 THEN NoError
    ELSE [kind |-> "DestinationCollision",
          lines |-> <<"Destination files already exist. Use --force to overwrite.",
                      "- " \o Collisions(paths)[1]>>]

\* ensure_writable(paths, force): the error it fails with, NoError when it
\* returns.  The message is held as its lines.
ensure_writable(paths, force) ==
    LET collisions == Collisions(paths)
        shown == IF Len(collisions) <= PreviewLimit THEN Len(collisions) ELSE PreviewLimit
        preview == [i \in 1..shown |-> "- " \o collisions[i]]
        rest == IF Len(collisions) <= PreviewLimit THEN << >>
                ELSE <<"... and " \o ToString(Len(collisions) - PreviewLimit) \o " more">>
    IN  IF force \/ Len(collisions) = 0 THEN NoError
        ELSE [kind |-> "DestinationCollision",
              lines |-> <<"Destination files already exist. Use --force to overwrite.">>
                        \o preview \o rest]

\* Path.mkdir(parents=True, exist_ok=True): the directory and those above it,
\* below the assets root.
MkdirParents(kind) ==
    { assets_root \o "/" \o namespace,
      assets_root \o "/" \o namespace \o "/" \o kind,
      assets_root \o "/" \o namespace \o "/" \o kind \o "/item",
      assets_root \o "/" \o namespace \o "/" \o kind \o "/item/" \o asset,
      assets_root \o "/" \o namespace \o "/" \o kind \o "/item/" \o asset \o "/" \o variant }

-----------------------------------------------------------------------------
(* Source documents.                                                       *)

\* An embedded PNG, and one whose base64 payload is cut short.
GoodSource == "data:image/png;base64,AAAA"
BadSource == "data:image/png;base64,AAA"

IntList(ints) == [is_list |-> TRUE, items |-> [i \in 1..Len(ints) |-> JInt(ints[i])]]
NoList == [is_list |-> FALSE, items |-> << >>]

\* A 16x16 texture, or a 16x32 strip of two frames.
StdTexture(name, animated) ==
    [is_object |-> TRUE, name |-> name, source |-> GoodSource, path |-> "",
     width |-> JInt(16), height |-> JInt(IF animated THEN 32 ELSE 16),
     uv_width |-> JInt(16), uv_height |-> JInt(16),
     frame_time |-> JInt(2), frame_interpolate |-> animated]

\* A face over the whole texture `ref`.
StdFace(ref) ==
    [is_object |-> TRUE, texture |-> ref, uv |-> IntList(<<0, 0, 16, 16>>),
     rotation |-> JNull, tint |-> JNull, tintindex |-> JNull]

\* The faces object declaring `names`, in that order, each on texture `ref`.
DeclaredFaces(names, ref) ==
    [i \in 1..Len(names) |-> [name |-> names[i], face |-> StdFace(ref)]]

AbsentRotation ==
    [form |-> "absent", items |-> << >>, axis |-> "", angle |-> JNull,
     origin |-> NoList, rescale |-> FALSE]
\* "rotation": [x, y, z]
ListRotation(items) ==
    [form |-> "list", items |-> items, axis |-> "", angle |-> JNull,
     origin |-> NoList, rescale |-> FALSE]
\* "rotation": {"axis": .., "angle": .., "origin": .., "rescale": ..}
ObjectRotation(axis, angle, origin, rescale) ==
    [form |-> "object", items |-> << >>, axis |-> axis, angle |-> angle,
     origin |-> origin, rescale |-> rescale]
\* "rotation": any other JSON value
OtherRotation ==
    [form |-> "other", items |-> << >>, axis |-> "", angle |-> JNull,
     origin |-> NoList, rescale |-> FALSE]

\* The full cube with the given visibility, rotation, origin and faces.
Element(name, visibility, rotation, origin, faces) ==
    [is_object |-> TRUE, name |-> name, visibility |-> visibility,
     from |-> IntList(<<0, 0, 0>>), to |-> IntList(<<16, 16, 16>>),
     rotation |-> rotation, origin |-> origin,
     shade |-> JNull, light_emission |-> JNull,
     faces_is_object |-> TRUE, faces |-> faces]

\* The cube of the design's round trip: six faces on texture 0, no rotation.
StdCube == Element("cube", JNull, AbsentRotation, IntList(<<8, 8, 8>>),
                   DeclaredFaces(VALID_FACES, JInt(0)))

Document(textures, elements) ==
    [valid_json |-> TRUE,
     resolution |-> [width |-> JInt(16), height |-> JInt(16)],
     textures_is_list |-> TRUE, textures |-> textures,
     elements_is_list |-> TRUE, elements |-> elements,
     front_gui_light |-> FALSE, display |-> ""]

NoDocument == [Document(<< >>, << >>) EXCEPT !.valid_json = FALSE]

\* What is wrong with a document of a run.
RunFaults ==
    {"none", "invalid_json", "textures_not_list", "bad_payload", "multi_axis",
     "unknown_ref", "all_hidden", "no_elements"}

\* The document of a run: n textures named "tex", the first a of them animated,
\* the cube on texture 0, and the fault.
RunDocument(n, a, fault) ==
    LET textures == [i \in 1..n |->
                        IF fault = "bad_payload" /\ i = n
                        THEN [StdTexture("tex", i <= a) EXCEPT !.source = BadSource]
                        ELSE StdTexture("tex", i <= a)]
        cube == CASE fault = "multi_axis" ->
                       [StdCube EXCEPT !.rotation =
                            ListRotation(<<JInt(0), JInt(45), JInt(30)>>)]
                  [] fault = "unknown_ref" ->
                       [StdCube EXCEPT !.faces = DeclaredFaces(VALID_FACES, JInt(n))]
                  [] fault = "all_hidden" ->
                       [StdCube EXCEPT !.visibility = JBool(FALSE)]
                  [] OTHER -> StdCube
        doc == Document(textures, IF fault = "no_elements" THEN << >> ELSE <<cube>>)
    IN  CASE fault = "invalid_json" -> [doc EXCEPT !.valid_json = FALSE]
          [] fault = "textures_not_list" -> [doc EXCEPT !.textures_is_list = FALSE]
          [] OTHER -> doc

RunDocuments ==
    { RunDocument(n, a, fault) : n \in 0..MaxTextures, a \in 0..MaxTextures,
                                 fault \in RunFaults }

NoArgs == [force |-> FALSE, dry_run |-> FALSE, prefix_textures |-> FALSE]

-----------------------------------------------------------------------------
(* main.                                                                   *)

Init ==
    /\ fs = {}
    /\ dirs = {}
    /\ args = NoArgs
    /\ bbmodel = NoDocument
    /\ pc = "idle"
    /\ texture_plans = << >>
    /\ model_json = NoModel
    /\ error = NoError
    /\ cursor = 0
    /\ writes = << >>
    /\ fs0 = {}

\* Lines 428-454: a run starts, with its flags and its document read.
ReadBbmodel(doc, force, dry_run) ==
    /\ pc = "idle"
    /\ args' = [force |-> force, dry_run |-> dry_run, prefix_textures |-> FALSE]
    /\ bbmodel' = doc
    /\ texture_plans' = << >>
    /\ model_json' = NoModel
    /\ cursor' = 0
    /\ writes' = << >>
    /\ fs0' = fs
    /\ IF doc.valid_json
       THEN pc' = "read" /\ error' = NoError
       ELSE /\ pc' = "failed"
            /\ error' = Fail("MalformedInput", "Invalid JSON in " \o bbmodel_path)
    /\ UNCHANGED <<fs, dirs>>

StartRun == \E doc \in RunDocuments, force \in BOOLEAN, dry_run \in BOOLEAN :
                ReadBbmodel(doc, force, dry_run)

\* Line 455 with the result r of build_texture_plans.
TexturesResolved(r) ==
    IF r.ok
    THEN texture_plans' = r.plans /\ pc' = "textures" /\ error' = NoError
    ELSE texture_plans' = << >> /\ pc' = "failed" /\ error' = r.error

\* Lines 455-463.
ResolveTextures ==
    /\ pc = "read"
    /\ TexturesResolved(build_texture_plans(bbmodel, args.prefix_textures))
    /\ UNCHANGED <<fs, dirs, args, bbmodel, model_json, cursor, writes, fs0>>

\* Line 464 with the result r of build_model_json.
ModelBuilt(r) ==
    IF r.ok
    THEN model_json' = r.json /\ pc' = "model" /\ error' = NoError
    ELSE model_json' = NoModel /\ pc' = "failed" /\ error' = r.error

\* Lines 449-454 and 464-466.
BuildModel ==
    /\ pc = "textures"
    /\ ModelBuilt(build_model_json(bbmodel, texture_plans,
                      read_positive_int(bbmodel.resolution.width, 16),
                      read_positive_int(bbmodel.resolution.height, 16)))
    /\ UNCHANGED <<fs, dirs, args, bbmodel, texture_plans, cursor, writes, fs0>>

\* Line 478 with the error e of ensure_writable.
WritableChecked(e) ==
    IF e = NoError
    THEN pc' = "planned" /\ error' = NoError
    ELSE pc' = "failed" /\ error' = e

\* Lines 468-478.
EnsureWritable ==
    /\ pc = "model"
    /\ WritableChecked(ensure_writable(PlannedPaths(texture_plans), args.force))
    /\ UNCHANGED <<fs, dirs, args, bbmodel, texture_plans, model_json, cursor, writes, fs0>>

\* Lines 480-498 with --dry-run and the mkdirs of lines 497-498 before the
\* return of line 493.
DryRunMakingDirs ==
    /\ pc = "planned"
    /\ args.dry_run
    /\ dirs' = dirs \cup MkdirParents("models") \cup MkdirParents("textures")
    /\ pc' = "done"
    /\ UNCHANGED <<fs, args, bbmodel, texture_plans, model_json, error, cursor, writes, fs0>>

\* Lines 480-495 with --dry-run: the plan is printed and main returns.
DryRun ==
    /\ pc = "planned"
    /\ args.dry_run
    /\ pc' = "done"
    /\ UNCHANGED <<fs, dirs, args, bbmodel, texture_plans, model_json, error, cursor,
                   writes, fs0>>

\* Lines 480-498 without --dry-run.
MakeDirs ==
    /\ pc = "planned"
    /\ ~args.dry_run
    /\ dirs' = dirs \cup MkdirParents("models") \cup MkdirParents("textures")
    /\ pc' = "write_model"
    /\ UNCHANGED <<fs, args, bbmodel, texture_plans, model_json, error, cursor, writes, fs0>>

\* A variant of WriteModel that writes as soon as the model is built, before
\* line 478.
WriteModelUnchecked ==
    /\ pc = "model"
    /\ ~args.dry_run
    /\ fs' = fs \cup {model_path}
    /\ writes' = Append(writes, [path |-> model_path, kind |-> "model", index |-> -1])
    /\ pc' = "write_textures"
    /\ cursor' = 0
    /\ UNCHANGED <<dirs, args, bbmodel, texture_plans, model_json, error, fs0>>

\* Line 500.
WriteModel ==
    /\ pc = "write_model"
    /\ fs' = fs \cup {model_path}
    /\ writes' = Append(writes, [path |-> model_path, kind |-> "model", index |-> -1])
    /\ pc' = "write_textures"
    /\ cursor' = 0
    /\ UNCHANGED <<dirs, args, bbmodel, texture_plans, model_json, error, fs0>>

\* Lines 501-502, one texture.
WriteTexture ==
    /\ pc = "write_textures"
    /\ cursor < Len(texture_plans)
    /\ LET tex == texture_plans[cursor + 1]
           path == texture_paths(texture_plans)[cursor + 1]
       IN  /\ fs' = fs \cup {path}
           /\ writes' = Append(writes, [path |-> path, kind |-> "png", index |-> tex.index])
    /\ cursor' = cursor + 1
    /\ UNCHANGED <<dirs, args, bbmodel, pc, texture_plans, model_json, error, fs0>>

\* The loop of line 501 ends and that of line 503 begins.
TexturesWritten ==
    /\ pc = "write_textures"
    /\ cursor = Len(texture_plans)
    /\ pc' = "write_mcmeta"
    /\ cursor' = 0
    /\ UNCHANGED <<fs, dirs, args, bbmodel, texture_plans, model_json, error, writes, fs0>>

\* Lines 503-507, one texture.
WriteMcmeta ==
    /\ pc = "write_mcmeta"
    /\ cursor < Len(texture_plans)
    /\ LET tex == texture_plans[cursor + 1]
       IN  IF ~tex.mcmeta_json.present
           THEN UNCHANGED <<fs, writes>>
           ELSE /\ fs' = fs \cup {McmetaPath(tex)}
                /\ writes' = Append(writes, [path |-> McmetaPath(tex), kind |-> "mcmeta",
                                             index |-> tex.index])
    /\ cursor' = cursor + 1
    /\ UNCHANGED <<dirs, args, bbmodel, pc, texture_plans, model_json, error, fs0>>

\* Line 509.
Done ==
    /\ pc = "write_mcmeta"
    /\ cursor = Len(texture_plans)
    /\ pc' = "done"
    /\ UNCHANGED <<fs, dirs, args, bbmodel, texture_plans, model_json, error, cursor,
                   writes, fs0>>

\* The process ends (line 509 reached, or fail's SystemExit): what it held in
\* memory is gone, the files stay.
Exit ==
    /\ pc \in {"done", "failed"}
    /\ pc' = "idle"
    /\ args' = NoArgs
    /\ bbmodel' = NoDocument
    /\ texture_plans' = << >>
    /\ model_json' = NoModel
    /\ error' = NoError
    /\ cursor' = 0
    /\ writes' = << >>
    /\ fs0' = fs
    /\ UNCHANGED <<fs, dirs>>

Next ==
    \/ StartRun
    \/ ResolveTextures
    \/ BuildModel
    \/ EnsureWritable
    \/ DryRun
    \/ MakeDirs
    \/ WriteModel
    \/ WriteTexture
    \/ TexturesWritten
    \/ WriteMcmeta
    \/ Done
    \/ Exit

Spec == Init /\ [][Next]_vars

-----------------------------------------------------------------------------
(* Runs over a pack that already holds the texture a document names as the  *)
(* external file of its texture.                                           *)

\* The texture file in the pack: where a texture of stem "tex" is written.
PlacedTexture == texture_dir \o "/tex.png"

\* Textures named "tex": the file in the pack under the "path" key and under
\* the "source" key, static and as a strip of two frames; another file; an
\* embedded PNG.
PlacedTextures ==
    { [StdTexture("tex", animated) EXCEPT !.source = "", !.path = PlacedTexture] :
         animated \in BOOLEAN }
    \cup { [StdTexture("tex", FALSE) EXCEPT !.source = PlacedTexture],
           [StdTexture("tex", FALSE) EXCEPT !.source = "ext.png"],
           StdTexture("tex", FALSE) }

\* The documents of these runs: the cube on one such texture, alone or before
\* an embedded one.
PlacedDocuments ==
    { Document(<<t>>, <<StdCube>>) : t \in PlacedTextures }
    \cup { Document(<<t, StdTexture("other", FALSE)>>, <<StdCube>>) : t \in PlacedTextures }

InitPlaced ==
    /\ fs = {PlacedTexture}
    /\ dirs = MkdirParents("textures")
    /\ args = NoArgs
    /\ bbmodel = NoDocument
    /\ pc = "idle"
    /\ texture_plans = << >>
    /\ model_json = NoModel
    /\ error = NoError
    /\ cursor = 0
    /\ writes = << >>
    /\ fs0 = {PlacedTexture}

StartPlacedRun == \E doc \in PlacedDocuments, force \in BOOLEAN, dry_run \in BOOLEAN :
                      ReadBbmodel(doc, force, dry_run)

NextPlaced ==
    \/ StartPlacedRun
    \/ ResolveTextures
    \/ BuildModel
    \/ EnsureWritable
    \/ DryRun
    \/ MakeDirs
    \/ WriteModel
    \/ WriteTexture
    \/ TexturesWritten
    \/ WriteMcmeta
    \/ Done
    \/ Exit

SpecPlaced == InitPlaced /\ [][NextPlaced]_vars

-----------------------------------------------------------------------------
(* The conversion alone: build_texture_plans and build_model_json on the   *)
(* documents of ConvertDocuments.                                          *)

\* All sequences over `set` of length at most n.
RECURSIVE SeqsUpTo(_, _)
SeqsUpTo(set, n) ==
    IF n = 0 THEN {<< >>}
    ELSE LET shorter == SeqsUpTo(set, n - 1)
         IN  shorter \cup {Append(seq, x) : seq \in shorter, x \in set}

\* Names of textures: two that normalise to the same stem, the stem the
\* de-duplication gives the second of them, a blank name, and the name the
\* blank name of texture 1 falls back to.
TextureNames == {"tex", "Tex.png", "tex_2", "", "texture_1"}

\* Documents whose texture names vary.
NameDocuments ==
    { Document([i \in 1..Len(names) |-> StdTexture(names[i], FALSE)], <<StdCube>>) :
        names \in SeqsUpTo(TextureNames, MaxNamedTextures) }

\* Values of a texture's width and height.
DimValues ==
    {JNull, JInt(0), JInt(16), JInt(32), JInt(-16), JBool(TRUE), JFloat(32, 1),
     JFloat(33, 2), JStr("32")}

\* Values of a texture's uv_width and uv_height.
UvDimValues == {JNull, JInt(0), JInt(16), JInt(32), JStr("32")}

\* Documents of one texture whose dimensions vary.
DimensionDocuments ==
    { Document(<<[StdTexture("tex", FALSE) EXCEPT !.width = w, !.height = h,
                                                  !.uv_width = uw, !.uv_height = uh]>>,
               <<StdCube>>) :
        w \in DimValues, h \in DimValues, uw \in UvDimValues, uh \in UvDimValues }

\* Textures whose payload varies: embedded, cut short, without a comma, an
\* external file that exists, one that does not, no payload, and an entry that
\* is no object.
SourceChoices ==
    { StdTexture("tex", FALSE),
      [StdTexture("tex", FALSE) EXCEPT !.source = BadSource],
      [StdTexture("tex", FALSE) EXCEPT !.source = "data:image/png;base64"],
      [StdTexture("tex", FALSE) EXCEPT !.source = "ext.png"],
      [StdTexture("tex", FALSE) EXCEPT !.source = "", !.path = "gone.png"],
      [StdTexture("tex", FALSE) EXCEPT !.source = ""],
      [StdTexture("tex", FALSE) EXCEPT !.is_object = FALSE] }

\* Documents whose texture payloads vary.
SourceDocuments ==
    { Document(textures, <<StdCube>>) :
        textures \in SeqsUpTo(SourceChoices, MaxNamedTextures) }

\* Components of a rotation vector: 0, two angles, 5e-8, 1e-7, 1.5e-7, a
\* negative angle.
AngleValues ==
    {JInt(0), JInt(45), JInt(30), JFloat(1, 20000000), JFloat(1, 10000000),
     JFloat(3, 20000000), JInt(-45)}

\* The rotation field of an element.
RotationValues ==
    { ListRotation(<<x, y, z>>) : x \in AngleValues, y \in AngleValues, z \in AngleValues }
    \cup { ListRotation(<< >>), ListRotation(<<JInt(0), JInt(45)>>),
           ListRotation(<<JInt(0), JStr("x"), JInt(0)>>),
           AbsentRotation, OtherRotation }
    \cup { ObjectRotation(axis, angle, origin, rescale) :
             axis \in {"y", "w"}, angle \in {JInt(45), JFloat(45, 2), JStr("45")},
             origin \in {IntList(<<8, 8, 8>>), NoList}, rescale \in BOOLEAN }

\* The origin field of an element: a vector, absent, too short, not numeric.
OriginValues ==
    { IntList(<<8, 0, 8>>), NoList, IntList(<<8, 8>>),
      [is_list |-> TRUE, items |-> <<JInt(8), JNull, JInt(8)>>] }

\* Documents of one element whose rotation and origin vary.
RotationDocuments ==
    { Document(<<StdTexture("tex", FALSE)>>,
               <<[StdCube EXCEPT !.rotation = r, !.origin = o]>>) :
        r \in RotationValues, o \in OriginValues }

\* The face names whose declaration order varies.
FaceNameChoices == {"down", "north"}

\* The declaration orders: sequences of distinct names, and one more face by
\* itself.
FaceOrders ==
    { names \in SeqsUpTo(FaceNameChoices, MaxFaces) :
        \A i, j \in 1..Len(names) : i # j => names[i] # names[j] }
    \cup {<<"up">>}

\* Texture references of a face.
RefValues ==
    {JInt(2), JInt(7), JInt(-1), JBool(TRUE), JBool(FALSE), JFloat(1, 1), JFloat(3, 2),
     JStr("1"), JStr("x"), JNull}

\* Elements whose faces vary: the declaration order, and the shapes that are
\* skipped or fail.
ElementChoices ==
    { [StdCube EXCEPT !.faces = DeclaredFaces(names, JInt(0))] : names \in FaceOrders }
    \cup { \* not visible, and nothing else in it valid
           [StdCube EXCEPT !.visibility = JBool(FALSE), !.from = NoList,
                           !.rotation = ListRotation(<<JInt(0), JInt(45), JInt(30)>>),
                           !.faces = DeclaredFaces(<<"up">>, JInt(7))],
           \* visibility given, as true
           [StdCube EXCEPT !.visibility = JBool(TRUE),
                           !.faces = DeclaredFaces(<<"east", "west">>, JInt(0))],
           \* no object
           [StdCube EXCEPT !.is_object = FALSE],
           \* "faces" missing
           [StdCube EXCEPT !.faces_is_object = FALSE, !.faces = << >>],
           \* a face that is null, and a face under a name that is none of the six
           [StdCube EXCEPT !.faces =
               <<[name |-> "top", face |-> StdFace(JInt(0))],
                 [name |-> "south", face |-> NoFace]>>],
           \* "to" with a component that is no number
           [StdCube EXCEPT !.to = [is_list |-> TRUE,
                                   items |-> <<JInt(16), JStr("x"), JInt(16)>>]] }

\* The numbers of textures of the documents whose elements vary.
TextureCounts == {0, 1, 3}

\* Documents of one element with one face whose texture reference varies.
ReferenceDocuments ==
    { Document([i \in 1..n |-> StdTexture("tex", FALSE)],
               <<[StdCube EXCEPT !.faces = DeclaredFaces(<<"north">>, ref)]>>) :
        n \in TextureCounts, ref \in RefValues }

\* Documents whose elements vary.
ElementDocuments ==
    { Document(<<StdTexture("tex", FALSE), StdTexture("tex", FALSE)>>, elements) :
        elements \in SeqsUpTo(ElementChoices, MaxElements) }
    \cup { Document(<< >>, <<StdCube>>) }
    \cup { [Document(<<StdTexture("tex", FALSE)>>, << >>) EXCEPT !.elements_is_list = FALSE],
           [Document(<< >>, <<StdCube>>) EXCEPT !.textures_is_list = FALSE] }

\* Values of resolution.width and resolution.height; JNull is the key missing.
ResolutionValues ==
    {JNull, JInt(16), JInt(32), JInt(64), JInt(24), JInt(0), JInt(-32), JFloat(32, 1),
     JFloat(49, 2), JStr("32"), JBool(TRUE)}

\* UV rectangles of a face: the whole 16x16 and 32x32 textures, a part, a
\* mirrored one, one with halves.
UvValues ==
    { IntList(<<0, 0, 16, 16>>), IntList(<<0, 0, 32, 32>>), IntList(<<4, 2, 12, 7>>),
      IntList(<<16, 16, 0, 0>>),
      [is_list |-> TRUE, items |-> <<JFloat(1, 2), JInt(0), JFloat(31, 2), JInt(16)>>] }

\* Documents of one element with one face whose UV and whose resolution vary.
UvDocuments ==
    { [Document(<<StdTexture("tex", FALSE)>>,
                <<[StdCube EXCEPT !.faces =
                      <<[name |-> "north", face |-> [StdFace(JInt(0)) EXCEPT !.uv = uv]]>>]>>)
          EXCEPT !.resolution = [width |-> w, height |-> h]] :
        uv \in UvValues, w \in ResolutionValues, h \in ResolutionValues }

\* Values of a face's tint and tintindex; JNull is the key missing.
TintValues ==
    {JNull, JInt(0), JInt(2), JInt(5), JInt(-1), JBool(TRUE), JFloat(1, 1), JStr("1")}

\* Documents of one element with one face whose tint and tintindex vary.
TintDocuments ==
    { Document(<<StdTexture("tex", FALSE)>>,
               <<[StdCube EXCEPT !.faces =
                     <<[name |-> "north",
                        face |-> [StdFace(JInt(0)) EXCEPT !.tint = tint,
                                                          !.tintindex = tintindex]]>>]>>) :
        tint \in TintValues, tintindex \in TintValues }

\* Values of an element's visibility: false, and values that are not false.
VisibilityValues == {JBool(FALSE), JNull, JBool(TRUE), JInt(0), JStr("false")}

\* Elements with one thing wrong each: from, to, the rotation (two axes, no
\* vector), the faces object, the texture reference (unknown, no number), the
\* UV of a face.
BrokenElements ==
    { [StdCube EXCEPT !.from = NoList],
      [StdCube EXCEPT !.to = [is_list |-> TRUE,
                              items |-> <<JInt(16), JStr("x"), JInt(16)>>]],
      [StdCube EXCEPT !.rotation = ListRotation(<<JInt(0), JInt(45), JInt(30)>>)],
      [StdCube EXCEPT !.rotation = OtherRotation],
      [StdCube EXCEPT !.faces_is_object = FALSE, !.faces = << >>],
      [StdCube EXCEPT !.faces = DeclaredFaces(<<"north">>, JInt(7))],
      [StdCube EXCEPT !.faces = DeclaredFaces(<<"north">>, JStr("x"))],
      [StdCube EXCEPT !.faces =
          <<[name |-> "north",
             face |-> [StdFace(JInt(0)) EXCEPT !.uv = IntList(<<0, 0, 16>>)]]>>] }

\* Documents of a broken element of some visibility: alone, before the cube
\* and after it.
VisibilityDocuments ==
    { Document(<<StdTexture("tex", FALSE)>>, elements) :
        elements \in UNION { { <<[b EXCEPT !.visibility = v]>>,
                               <<[b EXCEPT !.visibility = v], StdCube>>,
                               <<StdCube, [b EXCEPT !.visibility = v]>> } :
                             b \in BrokenElements, v \in VisibilityValues } }

ConvertDocuments ==
    NameDocuments \cup DimensionDocuments \cup SourceDocuments \cup RotationDocuments
    \cup ReferenceDocuments \cup ElementDocuments \cup UvDocuments
    \cup TintDocuments \cup VisibilityDocuments

\* A conversion starts with the document read (line 448); --prefix-textures
\* is given or not where the texture names vary.
InitConvert ==
    /\ fs = {}
    /\ dirs = {}
    /\ \E doc \in ConvertDocuments, prefix \in BOOLEAN :
          /\ prefix => doc \in NameDocuments
          /\ bbmodel = doc
          /\ args = [force |-> FALSE, dry_run |-> TRUE, prefix_textures |-> prefix]
    /\ pc = "read"
    /\ texture_plans = << >>
    /\ model_json = NoModel
    /\ error = NoError
    /\ cursor = 0
    /\ writes = << >>
    /\ fs0 = {}

NextConvert ==
    \/ ResolveTextures
    \/ BuildModel

SpecConvert == InitConvert /\ [][NextConvert]_vars

-----------------------------------------------------------------------------
(* transfer_item_namespace.py.  Its main runs over the same pack: fs and   *)
(* dirs are the files and directories of the pack, args the flags of the   *)
(* run, pc where main is, cursor the loop of execute_copy or of            *)
(* delete_sources, writes what the run did to files, in order, and fs0 the *)
(* files build_plan found.                                                 *)

\* Path.parent
Parent(p) == SubSeq(p, 1, RFind(p, "/") - 1)

EndsWith(str, suffix) ==
    Len(str) >= Len(suffix) /\ SubSeq(str, Len(str) - Len(suffix) + 1, Len(str)) = suffix

RECURSIVE Ancestors(_)
\* The directories above p and below the assets root.
Ancestors(p) ==
    IF Len(Parent(p)) <= Len(assets_root) THEN {}
    ELSE {Parent(p)} \cup Ancestors(Parent(p))

\* p is below the directory base.
Below(p, base) == StartsWith(p, base \o "/")

\* Lines 140-146 for the flags a.
src_items_dir(a) == assets_root \o "/" \o a.src_namespace \o "/items"
src_models_dir(a) == assets_root \o "/" \o a.src_namespace \o "/models/item/" \o asset
src_textures_dir(a) == assets_root \o "/" \o a.src_namespace \o "/textures/item/" \o asset
dst_items_dir(a) ==
    assets_root \o "/" \o a.dst_namespace \o "/items/" \o asset \o "/" \o variant
dst_models_dir(a) ==
    assets_root \o "/" \o a.dst_namespace \o "/models/item/" \o asset \o "/" \o variant
dst_textures_dir(a) ==
    assets_root \o "/" \o a.dst_namespace \o "/textures/item/" \o asset \o "/" \o variant

\* The files a pack may hold before a transfer run, in the order sorted()
\* gives paths: the family's items, models and textures in the source
\* namespace and an item of another family, then two files in the places the
\* family goes to in the namespace "bloodstone".
PackFiles ==
    << "/pack/assets/bloodstone/models/item/gem/default/gem.json",
       "/pack/assets/bloodstone/textures/item/gem/default/gem.png",
       "/pack/assets/minecraft/items/gem.json",
       "/pack/assets/minecraft/items/other.json",
       "/pack/assets/minecraft/models/item/gem/gem.json",
       "/pack/assets/minecraft/models/item/gem/sub/part.json",
       "/pack/assets/minecraft/textures/item/gem/gem.png" >>

\* sorted(...) of a set of these paths.
Sorted(paths) == SelectSeq(PackFiles, LAMBDA p : p \in paths)

\* The text of a JSON file, as the string literals in it.
Text(p) ==
    IF p = "/pack/assets/minecraft/items/gem.json" THEN <<"minecraft:model", "item/gem/gem">>
    ELSE IF p = "/pack/assets/minecraft/models/item/gem/gem.json"
    THEN <<"minecraft:item/generated", "minecraft:item/gem/gem", "minecraft:item/gems">>
    ELSE IF p = "/pack/assets/minecraft/models/item/gem/sub/part.json"
    THEN <<"minecraft:item/handheld", "minecraft:block/stone">>
    ELSE <<"minecraft:item/other">>

\* Lines 203-211 for one string literal: the literal after both patterns.
RewriteLiteral(literal, a) ==
    LET new_base == a.dst_namespace \o ":item/" \o asset \o "/" \o variant
        qualified == a.src_namespace \o ":item/" \o asset
        bare == "item/" \o asset
        Suffix(base) == SubSeq(literal, Len(base) + 1, Len(literal))
        Matches(base) == literal = base \/ StartsWith(literal, base \o "/")
    IN  IF Matches(qualified) THEN new_base \o Suffix(qualified)
        ELSE IF Matches(bare) THEN new_base \o Suffix(bare)
        ELSE literal

\* rewrite_refs(text, args)
rewrite_refs(text, a) == [i \in 1..Len(text) |-> RewriteLiteral(text[i], a)]

\* sorted_files(base) over the files `files`.
sorted_files(base, files) == Sorted({p \in files : Below(p, base)})

\* collect_item_files without --item-file and --item-glob: the files of the
\* items directory itself that match "<asset>*.json".
collect_item_files(a, files) ==
    Sorted({p \in files : /\ Parent(p) = src_items_dir(a)
                          /\ StartsWith(PathName(p), asset)
                          /\ EndsWith(PathName(p), ".json")})

\* src.relative_to(base), after the separator.
RelativeTo(p, base) == SubSeq(p, Len(base) + 2, Len(p))

\* Lines 160-189: the plan of the files found.
PlanOf(a, item_files, model_files, texture_files) ==
    [i \in 1..Len(item_files) |->
        [src |-> item_files[i],
         dst |-> dst_items_dir(a) \o "/" \o PathName(item_files[i]),
         rewrite_json_refs |-> TRUE]]
    \o [i \in 1..Len(model_files) |->
        [src |-> model_files[i],
         dst |-> dst_models_dir(a) \o "/" \o RelativeTo(model_files[i], src_models_dir(a)),
         rewrite_json_refs |-> EndsWith(model_files[i], ".json")]]
    \o [i \in 1..Len(texture_files) |->
        [src |-> texture_files[i],
         dst |-> dst_textures_dir(a) \o "/"
                 \o RelativeTo(texture_files[i], src_textures_dir(a)),
         rewrite_json_refs |-> FALSE]]

\* build_plan(root, args) over the files `files`: the plan, empty when no file
\* is found (lines 152-158 fail then).
build_plan(a, files) ==
    PlanOf(a, collect_item_files(a, files),
           sorted_files(src_models_dir(a), files),
           sorted_files(src_textures_dir(a), files))

\* ensure_destinations without the check of line 216-225.
ensure_destinations_unchecked(plan, force) == NoError

\* ensure_destinations(plan, force): the error it fails with, NoError when it
\* returns.
ensure_destinations(plan, force) ==
    LET collisions == SelectSeq([i \in 1..Len(plan) |-> plan[i].dst], Exists)
        shown == IF Len(collisions) <= PreviewLimit THEN Len(collisions) ELSE PreviewLimit
    IN  IF force \/ Len(collisions) = 0 THEN NoError
        ELSE [kind |-> "DestinationCollision",
              lines |-> <<"Destination files already exist. Use --force to overwrite.">>
                        \o [i \in 1..shown |-> "- " \o collisions[i]]
                        \o (IF Len(collisions) <= PreviewLimit THEN << >>
                            ELSE <<"... and "
                                   \o ToString(Len(collisions) - PreviewLimit) \o " more">>)]

\* The plan main holds from line 295 on.
Plan == build_plan(args, fs0)

\* Lines 233-239 for a step of the plan: the text is rewritten and differs.
Rewritten(step, a) ==
    /\ step.rewrite_json_refs
    /\ EndsWith(step.src, ".json")
    /\ rewrite_refs(Text(step.src), a) # Text(step.src)

\* Line 275: the source files of the plan, sorted.
SourceFiles(plan) == Sorted({plan[i].src : i \in 1..Len(plan)})

RECURSIVE Emptied(_, _, _)
\* The directories among `candidates` that prune_empty_dirs removes: those
\* that hold no file and no directory but ones it removes.
Emptied(candidates, files, directories) ==
    LET kept == {d \in candidates :
                    /\ \A f \in files : Parent(f) # d
                    /\ \A c \in directories : Parent(c) = d => c \in candidates}
    IN  IF kept = candidates THEN candidates
        ELSE Emptied(kept, files, directories)

\* prune_empty_dirs(start_dirs, stop_at, dry_run=False): the directories left.
prune_empty_dirs(start_dirs, stop_at, files, directories) ==
    directories
    \ Emptied({d \in directories :
                  /\ Below(d, stop_at)
                  /\ \E start \in start_dirs : d = start \/ Below(start, d)},
              files, directories)

NoTransferArgs ==
    [force |-> FALSE, dry_run |-> FALSE, delete_source |-> FALSE,
     src_namespace |-> "minecraft", dst_namespace |-> "bloodstone"]

\* The packs a transfer starts on: any of the files, each in its directories.
InitTransfer ==
    /\ fs \in SUBSET Range(PackFiles)
    /\ dirs = {"/pack/assets/minecraft"} \cup UNION {Ancestors(p) : p \in fs}
    /\ args = NoTransferArgs
    /\ bbmodel = NoDocument
    /\ pc = "idle"
    /\ texture_plans = << >>
    /\ model_json = NoModel
    /\ error = NoError
    /\ cursor = 0
    /\ writes = << >>
    /\ fs0 = fs

\* Lines 289-290.
ParseArgs ==
    /\ pc = "idle"
    /\ \E force \in BOOLEAN, dry_run \in BOOLEAN, delete_source \in BOOLEAN,
          dst_namespace \in {"bloodstone", "minecraft"} :
          args' = [force |-> force, dry_run |-> dry_run, delete_source |-> delete_source,
                   src_namespace |-> "minecraft", dst_namespace |-> dst_namespace]
    /\ pc' = "parsed"
    /\ UNCHANGED <<fs, dirs, bbmodel, texture_plans, model_json, error, cursor, writes, fs0>>

\* Lines 292-293.
CheckNamespaces ==
    /\ pc = "parsed"
    /\ IF args.src_namespace = args.dst_namespace
       THEN /\ pc' = "failed"
            /\ error' = Fail("SameNamespace",
                             "--src-namespace and --dst-namespace must be different.")
       ELSE pc' = "checked" /\ error' = NoError
    /\ UNCHANGED <<fs, dirs, args, bbmodel, texture_plans, model_json, cursor, writes, fs0>>

\* Line 295.
BuildPlan ==
    /\ pc = "checked"
    /\ fs0' = fs
    /\ IF Len(build_plan(args, fs)) = 0
       THEN pc' = "failed" /\ error' = Fail("NoFiles", "No files found. Checked:")
       ELSE pc' = "planned" /\ error' = NoError
    /\ UNCHANGED <<fs, dirs, args, bbmodel, texture_plans, model_json, cursor, writes>>

\* Line 296 with the error e of ensure_destinations.
DestinationsChecked(e) ==
    IF e = NoError
    THEN pc' = "copying" /\ error' = NoError
    ELSE pc' = "failed" /\ error' = e

\* Lines 296-306.
EnsureDestinations ==
    /\ pc = "planned"
    /\ DestinationsChecked(ensure_destinations(Plan, args.force))
    /\ cursor' = 0
    /\ UNCHANGED <<fs, dirs, args, bbmodel, texture_plans, model_json, writes, fs0>>

\* Lines 232-250, one step of the plan: the copy, or its line with --dry-run.
CopyFile ==
    /\ pc = "copying"
    /\ cursor < Len(Plan)
    /\ LET step == Plan[cursor + 1]
       IN  IF args.dry_run
           THEN /\ cursor' = cursor + 1
                /\ UNCHANGED <<fs, dirs, writes, pc>>
           ELSE /\ dirs' = dirs \cup Ancestors(step.dst)
                /\ fs' = fs \cup {step.dst}
                /\ writes' = Append(writes, [path |-> step.dst, kind |-> "copy",
                                             index |-> cursor])
                /\ IF Rewritten(step, args)
                   THEN pc' = "rewriting" /\ cursor' = cursor
                   ELSE pc' = "copying" /\ cursor' = cursor + 1
    /\ UNCHANGED <<args, bbmodel, texture_plans, model_json, error, fs0>>

\* Lines 252-253: the rewritten text over the copy.
RewriteFile ==
    /\ pc = "rewriting"
    /\ writes' = Append(writes, [path |-> Plan[cursor + 1].dst, kind |-> "rewrite",
                                 index |-> cursor])
    /\ cursor' = cursor + 1
    /\ pc' = "copying"
    /\ UNCHANGED <<fs, dirs, args, bbmodel, texture_plans, model_json, error, fs0>>

\* Lines 255-256 and 310: execute_copy returns.
CopiesDone ==
    /\ pc = "copying"
    /\ cursor = Len(Plan)
    /\ pc' = IF args.delete_source THEN "deleting" ELSE "done"
    /\ cursor' = 0
    /\ UNCHANGED <<fs, dirs, args, bbmodel, texture_plans, model_json, error, writes, fs0>>

\* Lines 276-280, one source file.
DeleteSource ==
    /\ pc = "deleting"
    /\ cursor < Len(SourceFiles(Plan))
    /\ LET src == SourceFiles(Plan)[cursor + 1]
       IN  IF ~args.dry_run /\ src \in fs
           THEN /\ fs' = fs \ {src}
                /\ writes' = Append(writes, [path |-> src, kind |-> "delete",
                                             index |-> cursor])
           ELSE UNCHANGED <<fs, writes>>
    /\ cursor' = cursor + 1
    /\ UNCHANGED <<dirs, args, bbmodel, pc, texture_plans, model_json, error, fs0>>

\* Lines 282-285 and 313.
PruneEmptyDirs ==
    /\ pc = "deleting"
    /\ cursor = Len(SourceFiles(Plan))
    /\ dirs' = IF args.dry_run THEN dirs
               ELSE prune_empty_dirs({Parent(p) : p \in Range(SourceFiles(Plan))},
                                     assets_root \o "/" \o args.src_namespace, fs, dirs)
    /\ pc' = "done"
    /\ UNCHANGED <<fs, args, bbmodel, texture_plans, model_json, error, cursor, writes, fs0>>

NextTransfer ==
    \/ ParseArgs
    \/ CheckNamespaces
    \/ BuildPlan
    \/ EnsureDestinations
    \/ CopyFile
    \/ RewriteFile
    \/ CopiesDone
    \/ DeleteSource
    \/ PruneEmptyDirs

SpecTransfer == InitTransfer /\ [][NextTransfer]_vars

-----------------------------------------------------------------------------
(* The run against the file system: claims C1 to C3.                       *)

\* What the validation of the run's document comes to, from the document, the
\* flags and the files the run found.
RunResolution == build_texture_plans(bbmodel, args.prefix_textures)
RunConversion ==
    build_model_json(bbmodel, RunResolution.plans,
                     read_positive_int(bbmodel.resolution.width, 16),
                     read_positive_int(bbmodel.resolution.height, 16))
RunCollisions == SelectSeq(PlannedPaths(RunResolution.plans), LAMBDA p : p \in fs0)

RunValidated ==
    /\ bbmodel.valid_json
    /\ RunResolution.ok
    /\ RunConversion.ok
    /\ (args.force \/ Len(RunCollisions) = 0)

\* C1: a run writes no output file unless texture resolution, geometry
\* conversion and the destination collision check all succeed, and have been
\* done when it writes; a run that has failed has written nothing and leaves
\* the files as it found them.
C1_NoWriteBeforeValidation ==
    /\ (fs # fs0 \/ writes # << >>) =>
          /\ RunValidated
          /\ pc \in {"write_textures", "write_mcmeta", "done"}
          /\ texture_plans = RunResolution.plans
          /\ model_json = RunConversion.json
    /\ pc = "failed" => (fs = fs0 /\ writes = << >> /\ ~RunValidated)

\* A run over existing files failed in the geometry conversion.
C1_Witness ==
    /\ pc = "failed"
    /\ error.kind = "UnsupportedRotation"
    /\ fs0 # {}
    /\ args.force

\* The text of the error of ensure_writable for the colliding paths, as the
\* amended C2 states it: the first PreviewLimit of them and the count of the rest.
CollisionReport(colliding) ==
    <<"Destination files already exist. Use --force to overwrite.">>
    \o [i \in 1..(IF Len(colliding) <= PreviewLimit THEN Len(colliding) ELSE PreviewLimit)
           |-> "- " \o colliding[i]]
    \o (IF Len(colliding) <= PreviewLimit THEN << >>
        ELSE <<"... and " \o ToString(Len(colliding) - PreviewLimit) \o " more">>)

\* The run is past the validation of its document and at or past line 478.
PastCollisionCheck == model_json.present /\ pc # "model"

C3_NoStaleFiles ==
    (pc = "done" /\ ~args.dry_run /\ args.force) =>
        fs = Range(PlannedPaths(texture_plans))

-----------------------------------------------------------------------------
(* The conversion: claims C4 to C10.                                       *)

\* The source textures and elements of the document converted.
SourceTextures == bbmodel.textures
SourceElements == bbmodel.elements

\* The conversion was made: the textures resolved, and the model was built
\* or refused.
Converted == RunResolution.ok /\ (model_json.present \/ pc = "failed")

\* A source element marked not visible.
Hidden(elem) == elem.visibility = JBool(FALSE)

\* The faces a source element declares as objects under one of the six names:
\* their names in the order of declaration, and in the order of VALID_FACES.
DeclaredOrder(elem) ==
    LET declared == SelectSeq(elem.faces,
                       LAMBDA f : f.face.is_object /\ f.name \in Range(VALID_FACES))
    IN  [i \in 1..Len(declared) |-> declared[i].name]
FixedOrder(elem) ==
    SelectSeq(VALID_FACES, LAMBDA face_name : face_name \in Range(DeclaredOrder(elem)))

\* The names of the faces of target element k, in the order of the document.
TargetFaceNames(k) ==
    [f \in 1..Len(model_json.elements[k].faces) |-> model_json.elements[k].faces[f].name]

\* The keys of the target texture table that are texture indices.
IndexKeys == DOMAIN model_json.textures \ {"particle"}

\* A face of a visible source element whose reference resolves to an index
\* that is no index of a resolved texture.
UnknownReference ==
    \E e \in 1..Len(SourceElements) :
        /\ SourceElements[e].is_object
        /\ ~Hidden(SourceElements[e])
        /\ \E f \in 1..Len(SourceElements[e].faces) :
              LET face == SourceElements[e].faces[f]
                  tex == resolve_texture_index(face.face.texture, "", "")
              IN  /\ face.face.is_object
                  /\ face.name \in Range(VALID_FACES)
                  /\ tex.ok
                  /\ tex.index.n \notin 0..(Len(SourceTextures) - 1)

\* C4: every face of every element of a produced target document has the
\* texture "#k" with k a key of the document's texture table, and a document
\* with a face that refers to an index that is no resolved texture index is
\* not produced.
C4_FaceTexturesInTable ==
    model_json.present =>
        /\ \A e \in 1..Len(model_json.elements) :
              \A f \in 1..Len(model_json.elements[e].faces) :
                 \E k \in IndexKeys :
                    model_json.elements[e].faces[f].face.texture = "#" \o k
        /\ ~UnknownReference

\* The reference the texture table holds for a stem.
ResourceReference(stem) ==
    namespace \o ":item/" \o asset \o "/" \o variant \o "/" \o stem

\* C5: a produced target document of a source with N textures has a texture
\* table of exactly N+1 entries, str(i) for each i in 0..N-1 mapped to the
\* reference of stem i and "particle" mapped as "0"; the textures resolved
\* are all N of them, and a texture that does not decode fails the run.
C5_TextureTable ==
    /\ (pc = "textures" \/ model_json.present) =>
          /\ Len(texture_plans) = Len(SourceTextures)
          /\ \A i \in 1..Len(texture_plans) : texture_plans[i].index = i - 1
    /\ (pc # "read" /\ \E i \in 1..Len(SourceTextures) :
                          \/ ~SourceTextures[i].is_object
                          \/ ~decode_texture_source(SourceTextures[i], i - 1).ok) =>
          (pc = "failed" /\ ~model_json.present)
    /\ model_json.present =>
          LET N == Len(SourceTextures)
          IN  /\ DOMAIN model_json.textures = {ToString(i) : i \in 0..(N-1)} \cup {"particle"}
              /\ Cardinality(DOMAIN model_json.textures) = N + 1
              /\ \A i \in 0..(N-1) :
                    model_json.textures[ToString(i)]
                        = ResourceReference(texture_plans[i + 1].file_stem)
              /\ model_json.textures["particle"] = model_json.textures["0"]

\* A document of three textures is produced, its table of four entries.
C5_Witness ==
    /\ model_json.present
    /\ Len(SourceTextures) = 3
    /\ Cardinality(DOMAIN model_json.textures) = 4
    /\ model_json.textures["particle"] = ResourceReference("tex")
    /\ model_json.textures["2"] = ResourceReference("tex_3")

\* No source element survives: each is not visible, or is the cube with no
\* face declared as an object under one of the six names.
NoSurvivor ==
    \A e \in 1..Len(SourceElements) :
        \/ SourceElements[e].is_object /\ Hidden(SourceElements[e])
        \/ /\ SourceElements[e] = [StdCube EXCEPT !.faces = SourceElements[e].faces]
           /\ Len(DeclaredOrder(SourceElements[e])) = 0

\* C6: a produced target document has at least one element and each of its
\* elements at least one face; a conversion in which no element survives
\* fails with EmptyResult and produces no document.
C6_NeverEmpty ==
    /\ model_json.present =>
          /\ Len(model_json.elements) >= 1
          /\ \A e \in 1..Len(model_json.elements) : Len(model_json.elements[e].faces) >= 1
    /\ (Converted /\ bbmodel.elements_is_list /\ NoSurvivor) =>
          (pc = "failed" /\ error.kind = "EmptyResult" /\ ~model_json.present)

\* Two elements, both not visible, are refused with EmptyResult.
C6_Witness ==
    /\ pc = "failed"
    /\ error.kind = "EmptyResult"
    /\ RunResolution.ok
    /\ Len(SourceElements) = 2
    /\ \A e \in 1..2 : Hidden(SourceElements[e])

\* The stem of texture i (from 1) before and after de-duplication.
Candidate(i) == CandidateStem(SourceTextures[i], i - 1, args.prefix_textures)
Stem(i) == texture_plans[i].file_stem
StemsDistinct ==
    \A i, j \in 1..Len(texture_plans) : i # j => Stem(i) # Stem(j)

\* C7 as stated: the stems of a run are pairwise distinct, the first texture
\* with a given normalized stem keeps it and the second gets "<stem>_2".
C7_SecondGetsSuffix2 ==
    pc = "textures" =>
        /\ StemsDistinct
        /\ \A i \in 1..Len(texture_plans) :
              LET earlier == {j \in 1..(i-1) : Candidate(j) = Candidate(i)}
              IN  /\ earlier = {} => Stem(i) = Candidate(i)
                  /\ Cardinality(earlier) = 1 => Stem(i) = Candidate(i) \o "_2"

\* C7: the stems of a run are pairwise distinct; a texture keeps its
\* normalized stem when no earlier texture was assigned it, and otherwise
\* gets "<stem>_k" for the least k >= 2 that no earlier texture was assigned.
C7_StemsDistinct ==
    pc = "textures" =>
        /\ StemsDistinct
        /\ \A i \in 1..Len(texture_plans) :
              LET used == {Stem(j) : j \in 1..(i-1)}
                  Suffixed(k) == Candidate(i) \o "_" \o ToString(k)
              IN  IF Candidate(i) \notin used THEN Stem(i) = Candidate(i)
                  ELSE \E k \in 2..(i + 1) :
                          /\ Stem(i) = Suffixed(k)
                          /\ Stem(i) \notin used
                          /\ \A m \in 2..(k-1) : Suffixed(m) \in used

\* The names tex, tex, tex_2 are given the stems tex, tex_2, tex_2_2.
C7_Witness ==
    /\ pc = "textures"
    /\ [i \in 1..Len(SourceTextures) |-> SourceTextures[i].name] = <<"tex", "tex", "tex_2">>
    /\ [i \in 1..Len(texture_plans) |-> Stem(i)] = <<"tex", "tex_2", "tex_2_2">>

\* A dimension field as C8 counts it: the integer it denotes when that is
\* positive, 0 otherwise.
ClaimedDimension(v) ==
    CASE v.t = "int" -> IF v.n > 0 THEN v.n ELSE 0
      [] v.t = "float" -> IF v.n % v.d = 0 /\ v.n > 0 THEN v.n \div v.d ELSE 0
      [] v.t = "str" -> IF ParseInt(v.s).ok /\ ParseInt(v.s).value > 0
                        THEN ParseInt(v.s).value ELSE 0
      [] OTHER -> 0

ClaimedAnimated(texture) ==
    LET w == ClaimedDimension(texture.width)
        h == ClaimedDimension(texture.height)
        uw == ClaimedDimension(texture.uv_width)
        uh == ClaimedDimension(texture.uv_height)
    IN  IF uw > 0 /\ uh > 0
        THEN \* h/uh > w/uw
             h * uw > w * uh
        ELSE w > 0 /\ h > 0 /\ h > w

\* C8: a texture is given an animation sidecar exactly when, with its
\* non-positive and non-integer dimensions counted as 0, height/uv_height is
\* strictly greater than width/uv_width if both uv dimensions are positive,
\* and width > 0, height > 0 and height > width otherwise.
C8_AnimatedExactly ==
    pc = "textures" =>
        \A i \in 1..Len(texture_plans) :
            texture_plans[i].mcmeta_json.present <=> ClaimedAnimated(SourceTextures[i])

\* A texture of width 16, height 32, uv 16x32 is resolved as not animated.
C8_Witness ==
    /\ pc = "textures"
    /\ Len(texture_plans) = 1
    /\ SourceTextures[1].width = JInt(16)
    /\ SourceTextures[1].height = JInt(32)
    /\ SourceTextures[1].uv_width = JInt(16)
    /\ SourceTextures[1].uv_height = JInt(32)
    /\ ~texture_plans[1].mcmeta_json.present

\* The source is one visible cube, all of it valid but for what its rotation,
\* a vector of three numbers, and its origin say.
VectorRotated ==
    /\ Len(SourceElements) = 1
    /\ SourceElements[1] = [StdCube EXCEPT !.rotation = SourceElements[1].rotation,
                                           !.origin = SourceElements[1].origin]
    /\ SourceElements[1].rotation.form = "list"
    /\ Len(SourceElements[1].rotation.items) = 3
    /\ \A i \in 1..3 : SourceElements[1].rotation.items[i].t \in {"int", "float"}

\* The axes of the rotation vector whose absolute value exceeds 1e-7.
NonZeroComponents ==
    {i \in 1..3 : LET v == SourceElements[1].rotation.items[i]
                  IN  Abs(v.n) * 10000000 > v.d}

\* The element's origin field is a vector of three numbers.
OriginIsVector ==
    /\ SourceElements[1].origin.is_list
    /\ Len(SourceElements[1].origin.items) = 3
    /\ \A i \in 1..3 : SourceElements[1].origin.items[i].t \in {"int", "float"}

\* C9: for a visible element rotated by a 3-vector, more than one non-zero
\* axis (absolute value above 1e-7) fails the conversion; exactly one gives
\* the target element that axis, that angle and the element's own origin, and
\* fails when that origin is no vector of three numbers; none gives the target
\* element no rotation, whatever the origin field.
C9_VectorRotation ==
    (Converted /\ VectorRotated) =>
        LET items == SourceElements[1].rotation.items
            origin == SourceElements[1].origin.items
        IN  CASE Cardinality(NonZeroComponents) > 1 ->
                    pc = "failed" /\ error.kind = "UnsupportedRotation"
              [] Cardinality(NonZeroComponents) = 1 ->
                    LET i == CHOOSE i \in NonZeroComponents : TRUE
                    IN  IF OriginIsVector
                        THEN /\ model_json.present
                             /\ model_json.elements[1].rotation.present
                             /\ model_json.elements[1].rotation.axis = <<"x", "y", "z">>[i]
                             /\ model_json.elements[1].rotation.angle
                                    = Float(items[i].n, items[i].d)
                             /\ model_json.elements[1].rotation.origin
                                    = [k \in 1..3 |-> Float(origin[k].n, origin[k].d)]
                        ELSE pc = "failed"
              [] OTHER ->
                    /\ model_json.present
                    /\ ~model_json.elements[1].rotation.present

\* The rotation [0, 45, 0] about the origin [8, 0, 8] is converted to axis y,
\* angle 45.
C9_Witness ==
    /\ model_json.present
    /\ VectorRotated
    /\ SourceElements[1].rotation.items = <<JInt(0), JInt(45), JInt(0)>>
    /\ model_json.elements[1].rotation.present
    /\ model_json.elements[1].rotation.axis = "y"
    /\ model_json.elements[1].rotation.angle = Float(45, 1)
    /\ model_json.elements[1].rotation.origin = <<Float(8, 1), Float(0, 1), Float(8, 1)>>

\* The source elements that are converted, by their index and in source order:
\* the visible ones that declare a face.
Surviving ==
    SelectSeq([i \in 1..Len(SourceElements) |-> i],
              LAMBDA i : /\ ~Hidden(SourceElements[i])
                         /\ Len(DeclaredOrder(SourceElements[i])) > 0)

\* C10 as stated: the elements of a produced target document are in the order
\* of their source elements, and the faces of each in the order in which the
\* source element declares them.
C10_FacesInDeclarationOrder ==
    model_json.present =>
        /\ Len(model_json.elements) = Len(Surviving)
        /\ \A k \in 1..Len(model_json.elements) :
              TargetFaceNames(k) = DeclaredOrder(SourceElements[Surviving[k]])

\* C10: the elements of a produced target document are in the order of their
\* source elements, and the faces of each are those the source element
\* declares, in the fixed order north, east, south, west, up, down.
C10_FacesInFixedOrder ==
    model_json.present =>
        /\ Len(model_json.elements) = Len(Surviving)
        /\ \A k \in 1..Len(model_json.elements) :
              TargetFaceNames(k) = FixedOrder(SourceElements[Surviving[k]])

\* An element declaring down before north, followed by one declaring up: the
\* target has them in that order, the first with north before down.
C10_Witness ==
    /\ model_json.present
    /\ Len(SourceElements) = 2
    /\ DeclaredOrder(SourceElements[1]) = <<"down", "north">>
    /\ DeclaredOrder(SourceElements[2]) = <<"up">>
    /\ Len(model_json.elements) = 2
    /\ TargetFaceNames(1) = <<"north", "down">>
    /\ TargetFaceNames(2) = <<"up">>

-----------------------------------------------------------------------------
(* The conversion and the plan: claims C11 to C16.                         *)

\* The source elements that are visible and declare at least one of the six
\* faces as an object.
TextureBearing ==
    {e \in 1..Len(SourceElements) :
        ~Hidden(SourceElements[e]) /\ Len(DeclaredOrder(SourceElements[e])) > 0}

\* A source element that is the cube but for its faces, each of them on
\* texture 0 or no object.
CubeButFaces(elem) ==
    /\ elem = [StdCube EXCEPT !.faces = elem.faces]
    /\ \A f \in 1..Len(elem.faces) : elem.faces[f].face \in {StdFace(JInt(0)), NoFace}

\* C11: the element array of a produced target document has exactly one entry
\* for each source element that is visible and declares at least one of the
\* six faces as an object; an element that declares none is dropped, and is
\* no error.
C11_ElementCount ==
    /\ model_json.present => Len(model_json.elements) = Cardinality(TextureBearing)
    /\ (/\ Converted
        /\ Len(SourceTextures) >= 1
        /\ TextureBearing # {}
        /\ \A e \in 1..Len(SourceElements) : CubeButFaces(SourceElements[e])) =>
          model_json.present

\* An element with no face followed by one with two faces: the target has the
\* second only.
C11_Witness ==
    /\ model_json.present
    /\ Len(SourceElements) = 2
    /\ CubeButFaces(SourceElements[1])
    /\ Len(DeclaredOrder(SourceElements[1])) = 0
    /\ Len(DeclaredOrder(SourceElements[2])) = 2
    /\ Len(model_json.elements) = 1
    /\ Len(model_json.elements[1].faces) = 2

\* The textures resolved as animated, by their position.
AnimatedPlans == {i \in 1..Len(texture_plans) : texture_plans[i].mcmeta_json.present}

\* The paths C12 names: the model, the texture of a stem, its sidecar.
ClaimedModelPath ==
    assets_root \o "/" \o namespace \o "/models/item/" \o asset \o "/" \o variant
    \o "/" \o model_name \o ".json"
ClaimedTexturePath(stem) ==
    assets_root \o "/" \o namespace \o "/textures/item/" \o asset \o "/" \o variant
    \o "/" \o stem \o ".png"
ClaimedSidecarPath(stem) == ClaimedTexturePath(stem) \o ".mcmeta"

\* C12: the paths a run plans for N resolved textures, A of them animated, are
\* exactly the model path, the N texture paths and the A sidecar paths; a
\* texture has a sidecar, holding its interpolate and frametime, exactly when
\* it is classified animated; and a run that writes, writes exactly the paths
\* that were checked for collisions.
C12_PlannedPaths ==
    /\ model_json.present =>
          LET planned == PlannedPaths(texture_plans)
              N == Len(texture_plans)
              A == Cardinality(AnimatedPlans)
          IN  /\ Len(planned) = 1 + N + A
              /\ Cardinality(Range(planned)) = 1 + N + A
              /\ Range(planned) =
                    {ClaimedModelPath}
                    \cup {ClaimedTexturePath(Stem(i)) : i \in 1..N}
                    \cup {ClaimedSidecarPath(Stem(i)) : i \in AnimatedPlans}
              /\ \A i \in 1..N :
                    /\ i \in AnimatedPlans <=> ClaimedAnimated(SourceTextures[i])
                    /\ i \in AnimatedPlans =>
                          /\ texture_plans[i].mcmeta_json.interpolate
                                = SourceTextures[i].frame_interpolate
                          /\ texture_plans[i].mcmeta_json.frametime
                                = SourceTextures[i].frame_time.n
    /\ (pc = "done" /\ ~args.dry_run) =>
          /\ {writes[k].path : k \in 1..Len(writes)} = Range(PlannedPaths(texture_plans))
          /\ Len(writes) = Len(PlannedPaths(texture_plans))

\* A run of three textures, two of them animated, has written its six files.
C12_Witness ==
    /\ pc = "done"
    /\ ~args.dry_run
    /\ Len(texture_plans) = 3
    /\ Cardinality(AnimatedPlans) = 2
    /\ Len(writes) = 6
    /\ ClaimedSidecarPath("tex_2") \in fs
    /\ ClaimedSidecarPath("tex_3") \notin fs

\* A resolution dimension as C13 counts it: the integer it denotes when that
\* is positive, 16 when it is missing or not positive.
ClaimedResolution(v) == IF ClaimedDimension(v) > 0 THEN ClaimedDimension(v) ELSE 16

\* Coordinate i of the UV rectangle raw_uv divided by resolution/16.
ClaimedCoordinate(raw_uv, i, resolution) ==
    Float(raw_uv[i].n * 16, raw_uv[i].d * ClaimedResolution(resolution))

\* The source face under the name of face f of target element k.
SourceFaceOf(k, f) ==
    GetFace(SourceElements[Surviving[k]].faces, model_json.elements[k].faces[f].name)

Present(v) == v # JNull
NonNegativeInteger(v) == v.t = "int" /\ v.n >= 0

\* The tintindex of face f of target element k, JNull when it has none.
EmittedTintindex(k, f) == model_json.elements[k].faces[f].face.tintindex

DryRunStep == (args.dry_run \/ args'.dry_run) => (fs' = fs /\ dirs' = dirs)

\* C15: a run with --dry-run creates, modifies and deletes no file and no
\* directory, whatever the document and the other flags; it fails exactly
\* when the validation of the document or the collision check fails, as a run
\* without the flag does.
C15_DryRunWritesNothing ==
    /\ [][DryRunStep]_vars
    /\ [](args.dry_run => (fs = fs0 /\ writes = << >>))
    /\ [](pc \in {"planned", "done"} => RunValidated)
    /\ [](pc = "failed" => ~RunValidated)

\* A dry run of a valid document ended with nothing under the assets root.
C15_Witness ==
    /\ pc = "done"
    /\ args.dry_run
    /\ Len(texture_plans) >= 1
    /\ fs = {}
    /\ dirs = {}

\* The document converted, without its elements marked not visible, and what
\* its conversion comes to.
VisibleDocument ==
    [bbmodel EXCEPT !.elements =
        SelectSeq(SourceElements, LAMBDA elem : ~(elem.is_object /\ Hidden(elem)))]
VisibleConversion ==
    build_model_json(VisibleDocument, RunResolution.plans,
                     read_positive_int(bbmodel.resolution.width, 16),
                     read_positive_int(bbmodel.resolution.height, 16))

\* C16: an element marked not visible is skipped entirely: the conversion
\* produces the document, or fails with the kind of error, that it produces
\* or fails with when the elements marked not visible are taken out of the
\* source, whatever these elements hold.
C16_HiddenSkipped ==
    (Converted /\ \E e \in 1..Len(SourceElements) :
                     SourceElements[e].is_object /\ Hidden(SourceElements[e])) =>
        /\ model_json.present <=> VisibleConversion.ok
        /\ model_json = VisibleConversion.json
        /\ pc = "failed" <=> ~VisibleConversion.ok
        /\ pc = "failed" => error.kind = VisibleConversion.error.kind
        /\ model_json.present =>
              Len(model_json.elements)
                 <= Cardinality({e \in 1..Len(SourceElements) : ~Hidden(SourceElements[e])})

\* An element with a rotation about two axes, marked not visible, before the
\* cube: the target holds the cube alone.
C16_Witness ==
    /\ model_json.present
    /\ Len(SourceElements) = 2
    /\ Hidden(SourceElements[1])
    /\ SourceElements[1].rotation = ListRotation(<<JInt(0), JInt(45), JInt(30)>>)
    /\ SourceElements[2] = StdCube
    /\ Len(model_json.elements) = 1
    /\ Len(model_json.elements[1].faces) = 6

-----------------------------------------------------------------------------
(* The texture that is its own destination: claim C17.                     *)

\* The file a texture of the document is read from, "" when it is embedded.
SourceFile(texture) ==
    IF texture.source # "" /\ ~StartsWith(texture.source, "data:")
    THEN ExternalPath(texture.source)
    ELSE IF texture.source = "" /\ texture.path # "" THEN ExternalPath(texture.path)
    ELSE ""

\* The textures of the run whose source file is the file they are written to.
OwnDestination ==
    {i \in 1..Len(texture_plans) : SourceFile(SourceTextures[i]) = TexturePath(texture_plans[i])}

-----------------------------------------------------------------------------
(* The transfer of a family to another namespace: claim C18.               *)

\* Step i of the plan is written: its copy is in the log, its file at the
\* destination and, when the text changes, the rewrite after the copy.
StepWritten(i) ==
    /\ Plan[i].dst \in fs
    /\ \E k \in 1..Len(writes) :
          /\ writes[k] = [path |-> Plan[i].dst, kind |-> "copy", index |-> i - 1]
          /\ Rewritten(Plan[i], args) =>
                \E r \in (k + 1)..Len(writes) :
                   writes[r] = [path |-> Plan[i].dst, kind |-> "rewrite", index |-> i - 1]

\* A step of the run that deletes a file deletes a planned source file, with
\* --delete-source and without --dry-run, after every step of the plan is
\* written.
DeletionStep ==
    (\E p \in fs : p \notin fs') =>
        /\ args.delete_source
        /\ ~args.dry_run
        /\ \A p \in fs \ fs' : \E i \in 1..Len(Plan) : p = Plan[i].src
        /\ \A i \in 1..Len(Plan) : StepWritten(i)

\* The run is one main refuses: the namespaces are equal, or a planned
\* destination exists and --force is not set.
Refused ==
    /\ pc # "idle"
    /\ \/ args.src_namespace = args.dst_namespace
       \/ ~args.force /\ \E i \in 1..Len(Plan) : Plan[i].dst \in fs0 \/ Plan[i].dst \in dirs

\* C18: the transfer deletes a source file only with --delete-source, without
\* --dry-run and after every planned copy, with its rewrite, is written to its
\* destination; a run whose namespaces are equal, or that plans a destination
\* that exists without --force, never gets to copy, rewrite or delete a file,
\* and a run that fails has changed nothing.
C18_DeleteAfterCopies ==
    /\ [][DeletionStep]_vars
    /\ [](Refused => /\ pc \in {"parsed", "checked", "planned", "failed"}
                     /\ fs = fs0
                     /\ writes = << >>)
    /\ [](pc = "failed" => fs = fs0 /\ writes = << >>)

\* A run with --delete-source has moved a family of three files or more, one
\* of them rewritten, and its source files are gone.
C18_Witness ==
    /\ pc = "done"
    /\ args.delete_source
    /\ ~args.dry_run
    /\ Len(Plan) >= 3
    /\ \E k \in 1..Len(writes) : writes[k].kind = "rewrite"
    /\ \E k \in 1..Len(writes) : writes[k].kind = "delete"
    /\ \A i \in 1..Len(Plan) : Plan[i].src \notin fs /\ Plan[i].dst \in fs

=============================================================================
